---- MODULE Spec2Model ----
(***************************************************************************)
(* GameTranslator: the asynchronous translation pipeline.                  *)
(*                                                                         *)
(*   core/translation_worker.py  TranslationWorker.run (OCR -> RAG query   *)
(*                               -> translate -> one outcome signal)       *)
(*   core/ocr.py                 OCREngine.recognize_text (retry ladder)   *)
(*   core/translator.py          MicrosoftTranslator / MockTranslator      *)
(*   core/llm_translator.py      LLMTranslator                             *)
(*   core/translation_service.py TranslationService (abstract base)        *)
(*   core/vocabulary_db.py       VocabularyDB (configure / query)          *)
(*   ui/main_window.py           MainWindow.start_translation and the      *)
(*                               slots of the worker's signals             *)
(*                                                                         *)
(* A text is a sequence of tokens.  A token is one character of Chars or   *)
(* a string literal of the source (a message prefix).  Python's None, as   *)
(* a value of a text variable, is the one-token sequence None, which no    *)
(* text of the program equals.  The source's Chinese literals are written  *)
(* in ASCII here; the comment at each definition gives the literal.        *)
(***************************************************************************)
EXTENDS Naturals, Sequences, FiniteSets

\* ------------------------------------------------------------------ bounds

\* Longest text typed by the user or returned by the OCR engine.
MaxLen == 2
\* Number of TranslationWorker objects the main window creates in a behaviour.
MaxWorkers == 3

\* ------------------------------------------------------------------- texts

None == <<"None">>

Chars == {"a", " "}

Texts == UNION {[1..n -> Chars] : n \in 0..MaxLen}

\* str.strip(): leading and trailing whitespace removed.
RECURSIVE LStrip(_)
LStrip(t) == IF t # <<>> /\ Head(t) = " " THEN LStrip(Tail(t)) ELSE t

RECURSIVE RStrip(_)
RStrip(t) ==
    IF t # <<>> /\ t[Len(t)] = " " THEN RStrip(SubSeq(t, 1, Len(t) - 1)) ELSE t

Strip(t) == RStrip(LStrip(t))

\* Python truthiness of a str-or-None value.
Truthy(v) == v # None /\ v # <<>>

\* --------------------------------------------------------- core/ocr.py

\* ocr.py:43  recognize_text(self, image, max_retries: int = 3)
OCR_MAX_RETRIES == 3

\* ocr.py:102  "[OCR] 未识别到文本内容"
OCR_NO_TEXT_FOUND == <<"[OCR] no text content recognized">>
\* ocr.py:110  "[OCR错误] Tesseract未正确安装或配置"
OCR_NOT_INSTALLED == <<"[OCR error] Tesseract not installed or configured">>
\* ocr.py:116  f"[OCR错误] Tesseract执行失败: {str(e)}"
OCR_EXEC_FAILED == <<"[OCR error] Tesseract execution failed: ", "TesseractError">>
\* ocr.py:125  "[OCR错误] 没有权限访问Tesseract，请以管理员身份运行程序"
OCR_NO_PERMISSION == <<"[OCR error] no permission to access Tesseract">>
\* ocr.py:135  "[OCR错误] Tesseract可执行文件未找到"
OCR_EXE_NOT_FOUND == <<"[OCR error] Tesseract executable not found">>
\* ocr.py:141  f"[OCR错误] {str(e)}"
OCR_UNKNOWN_ERROR == <<"[OCR error] ", "Exception">>
\* ocr.py:148  "[OCR错误] 所有重试尝试均失败"
OCR_ALL_RETRIES_FAILED == <<"[OCR error] all retry attempts failed">>

\* What one attempt of the loop body (ocr.py:56-105) meets: the engine returns
\* a raw text, or the attempt raises one of the exception classes the
\* handlers of ocr.py:107-146 tell apart.
EngineRaises ==
    {"TesseractNotFoundError", "TesseractError", "PermissionError",
     "FileNotFoundError", "Exception"}

\* Variant of EngineOutcomes: the engine call never returns nor raises.
EngineHangs == {}

EngineOutcomes ==
    {[kind |-> "text", text |-> t] : t \in Texts} \cup
    {[kind |-> k, text |-> <<>>] : k \in EngineRaises}

\* The tesseract configuration of an attempt (ocr.py:72-85).
OcrConfig(attempt) ==
    IF attempt = 0 THEN [psm |-> "default", grayscale |-> FALSE]
    ELSE IF attempt = 1 THEN [psm |-> "--psm 6", grayscale |-> FALSE]
    ELSE [psm |-> "--psm 8", grayscale |-> TRUE]

\* Variant of OcrIteration: an empty text of the last attempt leaves the
\* loop like a failed attempt.
OcrIterationEmptyExhausts(attempt, o, max_retries) ==
    LET last == attempt = max_retries - 1
        return(t) == [done |-> TRUE, text |-> t]
        continue == [done |-> FALSE, text |-> <<>>]
    IN  CASE o.kind = "text" ->
               IF Strip(o.text) # <<>> THEN return(Strip(o.text)) ELSE continue
          [] o.kind = "TesseractNotFoundError" -> return(OCR_NOT_INSTALLED)
          [] o.kind = "TesseractError" ->
               IF last THEN return(OCR_EXEC_FAILED) ELSE continue
          [] o.kind = "PermissionError" ->
               IF last THEN return(OCR_NO_PERMISSION) ELSE continue
          [] o.kind = "FileNotFoundError" -> return(OCR_EXE_NOT_FOUND)
          [] OTHER ->
               IF last THEN return(OCR_UNKNOWN_ERROR) ELSE continue

\* Variant of OcrIteration: an exception without a handler of its own ends
\* the call on whatever attempt it is raised.
OcrIterationUnknownFinal(attempt, o, max_retries) ==
    LET last == attempt = max_retries - 1
        return(t) == [done |-> TRUE, text |-> t]
        continue == [done |-> FALSE, text |-> <<>>]
    IN  CASE o.kind = "text" ->
               IF Strip(o.text) # <<>> THEN return(Strip(o.text))
               ELSE IF last THEN return(OCR_NO_TEXT_FOUND)
               ELSE continue
          [] o.kind = "TesseractNotFoundError" -> return(OCR_NOT_INSTALLED)
          [] o.kind = "TesseractError" ->
               IF last THEN return(OCR_EXEC_FAILED) ELSE continue
          [] o.kind = "PermissionError" ->
               IF last THEN return(OCR_NO_PERMISSION) ELSE continue
          [] o.kind = "FileNotFoundError" -> return(OCR_EXE_NOT_FOUND)
          [] OTHER -> return(OCR_UNKNOWN_ERROR)

\* Variant of OcrIteration: the text is returned as the engine gave it.
OcrIterationRaw(attempt, o, max_retries) ==
    LET last == attempt = max_retries - 1
        return(t) == [done |-> TRUE, text |-> t]
        continue == [done |-> FALSE, text |-> <<>>]
    IN  CASE o.kind = "text" ->
               IF Strip(o.text) # <<>> THEN return(o.text)
               ELSE IF last THEN return(OCR_NO_TEXT_FOUND)
               ELSE continue
          [] o.kind = "TesseractNotFoundError" -> return(OCR_NOT_INSTALLED)
          [] o.kind = "TesseractError" ->
               IF last THEN return(OCR_EXEC_FAILED) ELSE continue
          [] o.kind = "PermissionError" ->
               IF last THEN return(OCR_NO_PERMISSION) ELSE continue
          [] o.kind = "FileNotFoundError" -> return(OCR_EXE_NOT_FOUND)
          [] OTHER ->
               IF last THEN return(OCR_UNKNOWN_ERROR) ELSE continue

\* One iteration of the loop of recognize_text (ocr.py:55-146): iteration
\* `attempt` (from 0) meets o.  done: recognize_text returns text; otherwise
\* the loop goes on (continue).
OcrIteration(attempt, o, max_retries) ==
    LET last == attempt = max_retries - 1
        return(t) == [done |-> TRUE, text |-> t]
        continue == [done |-> FALSE, text |-> <<>>]
    IN  CASE o.kind = "text" ->
               IF Strip(o.text) # <<>> THEN return(Strip(o.text))
               ELSE IF last THEN return(OCR_NO_TEXT_FOUND)
               ELSE continue
          [] o.kind = "TesseractNotFoundError" -> return(OCR_NOT_INSTALLED)
          [] o.kind = "TesseractError" ->
               IF last THEN return(OCR_EXEC_FAILED) ELSE continue
          [] o.kind = "PermissionError" ->
               IF last THEN return(OCR_NO_PERMISSION) ELSE continue
          [] o.kind = "FileNotFoundError" -> return(OCR_EXE_NOT_FOUND)
          [] OTHER ->
               IF last THEN return(OCR_UNKNOWN_ERROR) ELSE continue

\* The loop of recognize_text from iteration `attempt` on (ocr.py:55-148).
\* outs[attempt + 1] is what iteration `attempt` meets.  The value is the
\* returned text and the number of iterations that were run.
RECURSIVE RecognizeFrom(_, _, _)
RecognizeFrom(outs, attempt, max_retries) ==
    IF attempt >= max_retries
    THEN [text |-> OCR_ALL_RETRIES_FAILED, attempts |-> attempt]
    ELSE LET it == OcrIteration(attempt, outs[attempt + 1], max_retries) IN
         IF it.done THEN [text |-> it.text, attempts |-> attempt + 1]
         ELSE RecognizeFrom(outs, attempt + 1, max_retries)

recognize_text(outs, max_retries) == RecognizeFrom(outs, 0, max_retries)

\* ------------------------------------------------ core/translator.py

\* translator.py:21  self.max_retries = 3
MS_MAX_RETRIES == 3

\* translator.py:46   f"[需要API密钥] {text}"
MS_NEED_KEY(text) == <<"[API key required] ">> \o text
\* translator.py:91   f"[响应格式错误] {text}"
MS_FORMAT_ERROR(text) == <<"[response format error] ">> \o text
\* translator.py:97   f"[连接超时] {text}"
MS_TIMEOUT(text) == <<"[connection timeout] ">> \o text
\* translator.py:103  f"[网络连接错误] {text}"
MS_CONNECTION_ERROR(text) == <<"[network connection error] ">> \o text
\* translator.py:107  f"[API密钥无效] {text}"
MS_KEY_INVALID(text) == <<"[API key invalid] ">> \o text
\* translator.py:109  f"[API访问被拒绝] {text}"
MS_ACCESS_DENIED(text) == <<"[API access denied] ">> \o text
\* translator.py:111  f"[API调用频率超限] {text}"
MS_RATE_LIMITED(text) == <<"[API rate limit exceeded] ">> \o text
\* translator.py:113  f"[HTTP错误 {e.response.status_code}] {text}"
MS_HTTP_ERROR(status, text) == <<"[HTTP error ", status, "] ">> \o text
\* translator.py:116  f"[响应解析错误] {text}"
MS_PARSE_ERROR(text) == <<"[response parse error] ">> \o text
\* translator.py:123  f"[翻译错误] {text}"
MS_TRANSLATE_ERROR(text) == <<"[translation error] ">> \o text
\* translator.py:125  f"[翻译失败] {text}"
MS_TRANSLATE_FAILED(text) == <<"[translation failed] ">> \o text

\* translator.py:146  f"[MOCK TRANSLATION] {text}"
MOCK_TRANSLATION(text) == <<"[MOCK TRANSLATION] ">> \o text

\* HTTP error statuses raise_for_status (translator.py:78) can raise for.
HttpStatuses == {"401", "403", "404", "429", "500"}

\* Texts a translation service answers with.
ResponseTexts == {<<"t">>, <<" ", "t">>}

\* What one requests.post of MicrosoftTranslator.translate meets
\* (translator.py:70-123).  A received body has one of these shapes:
\*   ok                 [{"translations": [{"text": t}]}]
\*   empty              []            (falsy result)
\*   no_translations    [{}]          ('translations' not in result[0])
\*   translations_empty [{"translations": []}]      -> IndexError
\*   no_text            [{"translations": [{}]}]    -> KeyError
MsBodyShapes == {"empty", "no_translations", "translations_empty", "no_text"}

MsNetOutcomes ==
    {[kind |-> "response", shape |-> "ok", text |-> t, status |-> "200"] :
        t \in ResponseTexts} \cup
    {[kind |-> "response", shape |-> s, text |-> <<>>, status |-> "200"] :
        s \in MsBodyShapes} \cup
    {[kind |-> "HTTPError", shape |-> "none", text |-> <<>>, status |-> s] :
        s \in HttpStatuses} \cup
    {[kind |-> k, shape |-> "none", text |-> <<>>, status |-> "none"] :
        k \in {"Timeout", "ConnectionError", "JSONDecodeError", "Exception"}}

\* Variant of MsIteration: every HTTP error is retried like a timeout.
MsIterationRetryHttp(text, attempt, o, max_retries) ==
    IF o.kind = "response" /\ o.shape = "ok"
    THEN [done |-> TRUE, text |-> o.text]
    ELSE IF attempt < max_retries - 1
    THEN [done |-> FALSE, text |-> <<>>]
    ELSE [done |-> TRUE, text |-> MS_TRANSLATE_ERROR(text)]

\* Variant of MsIteration: status 403 has no branch of its own and gets the
\* generic HTTP placeholder.
MsIterationNoForbidden(text, attempt, o, max_retries) ==
    LET more == attempt < max_retries - 1
        return(t) == [done |-> TRUE, text |-> t]
        continue == [done |-> FALSE, text |-> <<>>]
    IN  CASE o.kind = "response" /\ o.shape = "ok" -> return(o.text)
          [] o.kind = "response" /\ o.shape \in {"empty", "no_translations"} ->
               return(MS_FORMAT_ERROR(text))
          [] o.kind = "Timeout" ->
               IF more THEN continue ELSE return(MS_TIMEOUT(text))
          [] o.kind = "ConnectionError" ->
               IF more THEN continue ELSE return(MS_CONNECTION_ERROR(text))
          [] o.kind = "HTTPError" /\ o.status = "401" -> return(MS_KEY_INVALID(text))
          [] o.kind = "HTTPError" /\ o.status = "429" -> return(MS_RATE_LIMITED(text))
          [] o.kind = "HTTPError" -> return(MS_HTTP_ERROR(o.status, text))
          [] o.kind = "JSONDecodeError" -> return(MS_PARSE_ERROR(text))
          [] OTHER ->
               IF more THEN continue ELSE return(MS_TRANSLATE_ERROR(text))

\* One iteration of the retry loop of MicrosoftTranslator.translate
\* (translator.py:49-123): the request of iteration `attempt` (from 0) meets
\* o.  done: translate returns text; otherwise the loop goes on (continue).
MsIteration(text, attempt, o, max_retries) ==
    LET more == attempt < max_retries - 1
        return(t) == [done |-> TRUE, text |-> t]
        continue == [done |-> FALSE, text |-> <<>>]
    IN  CASE o.kind = "response" ->
               CASE o.shape = "ok" -> return(o.text)
                 [] o.shape \in {"empty", "no_translations"} ->
                      return(MS_FORMAT_ERROR(text))
                 [] OTHER ->  \* IndexError / KeyError: the generic handler
                      IF more THEN continue ELSE return(MS_TRANSLATE_ERROR(text))
          [] o.kind = "Timeout" ->
               IF more THEN continue ELSE return(MS_TIMEOUT(text))
          [] o.kind = "ConnectionError" ->
               IF more THEN continue ELSE return(MS_CONNECTION_ERROR(text))
          [] o.kind = "HTTPError" ->
               CASE o.status = "401" -> return(MS_KEY_INVALID(text))
                 [] o.status = "403" -> return(MS_ACCESS_DENIED(text))
                 [] o.status = "429" -> return(MS_RATE_LIMITED(text))
                 [] OTHER -> return(MS_HTTP_ERROR(o.status, text))
          [] o.kind = "JSONDecodeError" -> return(MS_PARSE_ERROR(text))
          [] OTHER ->
               IF more THEN continue ELSE return(MS_TRANSLATE_ERROR(text))

\* MicrosoftTranslator.translate before its loop (translator.py:35-46) of a
\* translator whose api_key is `api_key`: the text it returns at once, or
\* the loop is entered.
MsBegin(api_key, text) ==
    IF Strip(text) = <<>> THEN [done |-> TRUE, text |-> <<>>]
    ELSE IF api_key = "" THEN [done |-> TRUE, text |-> MS_NEED_KEY(text)]
    ELSE [done |-> FALSE, text |-> <<>>]

\* Variant of MockTranslate: the text is trimmed before it is marked.
MockTranslateTrimmed(text) ==
    IF Strip(text) = <<>> THEN <<>> ELSE MOCK_TRANSLATION(Strip(text))

\* MockTranslator.translate (translator.py:131-146).
MockTranslate(text) ==
    IF Strip(text) = <<>> THEN <<>> ELSE MOCK_TRANSLATION(text)

\* TranslationService.translate (translation_service.py:8-20):
\* raise NotImplementedError("Subclasses must implement translate()").
NOT_IMPLEMENTED == <<"Subclasses must implement translate()">>

\* -------------------------------------------- core/llm_translator.py

\* llm_translator.py:22  self.max_retries = 2
LLM_MAX_RETRIES == 2

\* llm_translator.py:83   "[LLM配置不完整]"
LLM_NOT_CONFIGURED == <<"[LLM configuration incomplete]">>
\* llm_translator.py:125  "[LLM响应格式错误]"
LLM_FORMAT_ERROR == <<"[LLM response format error]">>
\* llm_translator.py:130  "[LLM连接超时]"
LLM_TIMEOUT == <<"[LLM connection timeout]">>
\* llm_translator.py:134  "[LLM API密钥无效]"
LLM_KEY_INVALID == <<"[LLM API key invalid]">>
\* llm_translator.py:136  "[LLM API调用频率超限]"
LLM_RATE_LIMITED == <<"[LLM API rate limit exceeded]">>
\* llm_translator.py:137  f"[LLM HTTP错误 {e.response.status_code}]"
LLM_HTTP_ERROR(status) == <<"[LLM HTTP error ", status, "]">>
\* llm_translator.py:141  f"[LLM未知错误: {e}]"
LLM_UNKNOWN_ERROR(e) == <<"[LLM unknown error: ", e, "]">>
\* llm_translator.py:143  "[LLM翻译失败]"
LLM_TRANSLATE_FAILED == <<"[LLM translation failed]">>

\* What one requests.post of LLMTranslator.translate meets
\* (llm_translator.py:109-141).  A received body has one of these shapes:
\*   ok              {"choices": [{"message": {"content": c}}]}, c non-empty
\*   no_choices      {}  or a falsy body
\*   choices_empty   {"choices": []}
\*   content_empty   {"choices": [{"message": {"content": ""}}]} or no message
\*   choice_not_dict {"choices": ["x"]}          -> AttributeError
LlmBodyShapes == {"no_choices", "choices_empty", "content_empty", "choice_not_dict"}

LlmNetOutcomes ==
    {[kind |-> "response", shape |-> "ok", text |-> t, status |-> "200"] :
        t \in ResponseTexts} \cup
    {[kind |-> "response", shape |-> s, text |-> <<>>, status |-> "200"] :
        s \in LlmBodyShapes} \cup
    {[kind |-> "HTTPError", shape |-> "none", text |-> <<>>, status |-> s] :
        s \in HttpStatuses} \cup
    {[kind |-> k, shape |-> "none", text |-> <<>>, status |-> "none"] :
        k \in {"Timeout", "ConnectionError", "JSONDecodeError", "Exception"}}

\* _build_prompt (llm_translator.py:24-67): the "original -> translation"
\* lines of the vocabulary block built from the results of rag_context.  A
\* result whose metadata holds no (or an empty) translation gives no line.
RECURSIVE PromptVocabulary(_)
PromptVocabulary(results) ==
    IF results = <<>> THEN <<>>
    ELSE LET r == Head(results)
             rest == PromptVocabulary(Tail(results))
         IN  IF r.translation # <<>>
             THEN <<[original |-> r.original_text, translation |-> r.translation]>>
                  \o rest
             ELSE rest

\* Variant of LlmIteration: a timeout is not retried.
LlmIterationTimeoutFinal(attempt, o, max_retries) ==
    LET last == attempt >= max_retries - 1
        return(t) == [done |-> TRUE, text |-> t]
        continue == [done |-> FALSE, text |-> <<>>]
    IN  CASE o.kind = "response" /\ o.shape = "ok" -> return(Strip(o.text))
          [] o.kind = "response" /\ o.shape = "choice_not_dict" ->
               IF last THEN return(LLM_UNKNOWN_ERROR("AttributeError")) ELSE continue
          [] o.kind = "response" -> return(LLM_FORMAT_ERROR)
          [] o.kind = "Timeout" -> return(LLM_TIMEOUT)
          [] o.kind = "HTTPError" /\ o.status = "401" -> return(LLM_KEY_INVALID)
          [] o.kind = "HTTPError" /\ o.status = "429" -> return(LLM_RATE_LIMITED)
          [] o.kind = "HTTPError" -> return(LLM_HTTP_ERROR(o.status))
          [] OTHER ->
               IF last THEN return(LLM_UNKNOWN_ERROR(o.kind)) ELSE continue

\* One iteration of the retry loop of LLMTranslator.translate
\* (llm_translator.py:106-141): the request of iteration `attempt` meets o.
LlmIteration(attempt, o, max_retries) ==
    LET last == attempt >= max_retries - 1
        return(t) == [done |-> TRUE, text |-> t]
        continue == [done |-> FALSE, text |-> <<>>]
    IN  CASE o.kind = "response" ->
               CASE o.shape = "ok" -> return(Strip(o.text))
                 [] o.shape = "choice_not_dict" ->  \* the generic handler
                      IF last THEN return(LLM_UNKNOWN_ERROR("AttributeError"))
                      ELSE continue
                 [] OTHER -> return(LLM_FORMAT_ERROR)
          [] o.kind = "Timeout" -> IF last THEN return(LLM_TIMEOUT) ELSE continue
          [] o.kind = "HTTPError" ->
               CASE o.status = "401" -> return(LLM_KEY_INVALID)
                 [] o.status = "429" -> return(LLM_RATE_LIMITED)
                 [] OTHER -> return(LLM_HTTP_ERROR(o.status))
          [] OTHER ->  \* ConnectionError, JSONDecodeError, any Exception
               IF last THEN return(LLM_UNKNOWN_ERROR(o.kind)) ELSE continue

\* Variant of LlmBegin: the configuration is tested before the text.
LlmBeginConfigFirst(cfg, text) ==
    IF cfg.api_key = "" \/ cfg.base_url = "" \/ cfg.model = ""
    THEN [done |-> TRUE, text |-> LLM_NOT_CONFIGURED]
    ELSE IF Strip(text) = <<>> THEN [done |-> TRUE, text |-> <<>>]
    ELSE [done |-> FALSE, text |-> <<>>]

\* LLMTranslator.translate before its loop (llm_translator.py:79-104) of a
\* translator configured with cfg.
LlmBegin(cfg, text) ==
    IF Strip(text) = <<>> THEN [done |-> TRUE, text |-> <<>>]
    ELSE IF cfg.api_key = "" \/ cfg.base_url = "" \/ cfg.model = ""
    THEN [done |-> TRUE, text |-> LLM_NOT_CONFIGURED]
    ELSE [done |-> FALSE, text |-> <<>>]

\* ------------------------------------------------- translator objects

SettingValues == {"", "k"}

\* A translator object: its class and the settings its __init__ read
\* (translator.py:15-21, llm_translator.py:15-22).
Translator(class, api_key, base_url, model) ==
    [class |-> class, api_key |-> api_key, base_url |-> base_url, model |-> model]

Translators ==
    {Translator("MicrosoftTranslator", k, "", "") : k \in SettingValues} \cup
    {Translator("LLMTranslator", k, "k", "k") : k \in SettingValues} \cup
    {Translator("LLMTranslator", "k", "", "k"), Translator("LLMTranslator", "k", "k", "")} \cup
    {Translator(c, "", "", "") : c \in {"MockTranslator", "TranslationService"}}

\* "rag_context" in signature(translator.translate).parameters
\* (translator.py:23, translator.py:131, llm_translator.py:69,
\* translation_service.py:8).
DeclaresRagContext(translator) == translator.class = "LLMTranslator"

MaxRetries(translator) ==
    IF translator.class = "LLMTranslator" THEN LLM_MAX_RETRIES ELSE MS_MAX_RETRIES

\* What one request of the translator's loop can meet.
NetOutcomes(translator) ==
    IF translator.class = "LLMTranslator" THEN LlmNetOutcomes ELSE MsNetOutcomes

\* str(e) of the TypeError of a call with a keyword the method lacks.
TYPE_ERROR == <<"translate() got an unexpected keyword argument 'rag_context'">>

\* Variant of TranslateBegin: a translator whose key or configuration is
\* missing raises instead of returning its placeholder.
TranslateBeginRaising(translator, text, kwargs) ==
    LET return(t) == [done |-> TRUE, raised |-> FALSE, text |-> t]
        raise(d) == [done |-> TRUE, raised |-> TRUE, text |-> d]
        loop == [done |-> FALSE, raised |-> FALSE, text |-> <<>>]
        begin(b) == IF ~b.done THEN loop
                    ELSE IF b.text = <<>> THEN return(b.text) ELSE raise(b.text)
    IN  IF "rag_context" \in DOMAIN kwargs /\ ~DeclaresRagContext(translator)
        THEN raise(TYPE_ERROR)
        ELSE CASE translator.class = "MicrosoftTranslator" ->
                     begin(MsBegin(translator.api_key, text))
               [] translator.class = "LLMTranslator" ->
                     begin(LlmBegin(translator, text))
               [] translator.class = "MockTranslator" -> return(MockTranslate(text))
               [] OTHER -> raise(NOT_IMPLEMENTED)

\* translator.translate(text, **kwargs) up to its first request.  A keyword
\* the method does not declare is a TypeError raised by the call itself.
\* done: the call is over, with the text returned or, if raised, the
\* description of the exception.
TranslateBegin(translator, text, kwargs) ==
    LET return(t) == [done |-> TRUE, raised |-> FALSE, text |-> t]
        raise(d) == [done |-> TRUE, raised |-> TRUE, text |-> d]
        loop == [done |-> FALSE, raised |-> FALSE, text |-> <<>>]
        begin(b) == IF b.done THEN return(b.text) ELSE loop
    IN  IF "rag_context" \in DOMAIN kwargs /\ ~DeclaresRagContext(translator)
        THEN raise(TYPE_ERROR)
        ELSE CASE translator.class = "MicrosoftTranslator" ->
                     begin(MsBegin(translator.api_key, text))
               [] translator.class = "LLMTranslator" ->
                     begin(LlmBegin(translator, text))
               [] translator.class = "MockTranslator" -> return(MockTranslate(text))
               [] OTHER -> raise(NOT_IMPLEMENTED)

\* One iteration of the translator's retry loop.
TranslateIteration(translator, text, attempt, o) ==
    IF translator.class = "LLMTranslator"
    THEN LlmIteration(attempt, o, LLM_MAX_RETRIES)
    ELSE MsIteration(text, attempt, o, MS_MAX_RETRIES)

\* The text returned when the loop runs out (translator.py:125,
\* llm_translator.py:143).
TranslateExhausted(translator, text) ==
    IF translator.class = "LLMTranslator" THEN LLM_TRANSLATE_FAILED
    ELSE MS_TRANSLATE_FAILED(text)

\* translate as a function of what its requests meet: nets[i] is met by
\* request i.  The value is the text returned and the number of requests.
RECURSIVE TranslateFrom(_, _, _, _)
TranslateFrom(translator, text, nets, attempt) ==
    IF attempt >= MaxRetries(translator)
    THEN [text |-> TranslateExhausted(translator, text), calls |-> attempt]
    ELSE LET it == TranslateIteration(translator, text, attempt, nets[attempt + 1]) IN
         IF it.done THEN [text |-> it.text, calls |-> attempt + 1]
         ELSE TranslateFrom(translator, text, nets, attempt + 1)

\* ---------------------------------------------- core/vocabulary_db.py

\* The embedding the provider computes for a text under a model: a point of
\* the model's own vector space, here the numbers of times two characters
\* occur in the text.  Vectors of different models are different values.
RECURSIVE Count(_, _)
Count(t, c) ==
    IF t = <<>> THEN 0
    ELSE (IF Head(t) = c THEN 1 ELSE 0) + Count(Tail(t), c)

Embedding(model, text) ==
    [space |-> model, at |-> <<Count(text, "a"), Count(text, " ")>>]

\* Squared L2 distance, the default space of a ChromaDB collection.
SqDiff(x, y) == IF x >= y THEN (x - y) * (x - y) ELSE (y - x) * (y - x)

Distance(u, v) == SqDiff(u.at[1], v.at[1]) + SqDiff(u.at[2], v.at[2])

\* str.lower().replace(' ', '_') (vocabulary_db.py:151).
LowerChar(c) == IF c = "A" THEN "a" ELSE c

DocId(original_text) ==
    [i \in 1..Len(original_text) |->
        IF LowerChar(original_text[i]) = " " THEN "_"
        ELSE LowerChar(original_text[i])]

\* Variant of NewEntry: the id is the original text as it is.
NewEntryRawId(model, original_text, translation) ==
    [id |-> original_text, original_text |-> original_text,
     translation |-> translation, embedding |-> Embedding(model, original_text)]

\* The entry add_entry upserts (vocabulary_db.py:148-158).  The metadata of
\* an entry is modelled by its 'translation' key.
NewEntry(model, original_text, translation) ==
    [id |-> DocId(original_text), original_text |-> original_text,
     translation |-> translation, embedding |-> Embedding(model, original_text)]

\* The names a vocabulary book (a ChromaDB collection) can have.
Book == "book"

CollectionNames == {Book, "book2"}

Absent == [exists |-> FALSE, entries |-> {}]

Collection(entries) == [exists |-> TRUE, entries |-> entries]

\* The states of the on-disk store at the start of a behaviour: no
\* collection, an empty book, a book of one entry, a book of two entries.
Stores ==
    { [n \in CollectionNames |-> Absent] } \cup
    { [n \in CollectionNames |-> IF n = Book THEN Collection(es) ELSE Absent] :
        es \in { {},
                 {NewEntry("k", <<"a">>, <<"t">>)},
                 {NewEntry("k", <<"a">>, <<"t">>),
                  NewEntry("k", <<"a", " ">>, <<"t">>)} } }

\* One formatted result of query (vocabulary_db.py:216-222).
QueryResult(e, qvec) ==
    [id |-> e.id, original_text |-> e.original_text,
     translation |-> e.translation, distance |-> Distance(e.embedding, qvec)]

IsNearestFirst(res) ==
    \A i \in 1..Len(res) : \A j \in 1..Len(res) :
        i < j => res[i].distance <= res[j].distance

Min(a, b) == IF a <= b THEN a ELSE b

\* collection.query(query_embeddings, n_results) (vocabulary_db.py:208-223):
\* the min(n_results, size) nearest entries, nearest first.  Entries at the
\* same distance come in an order the index chooses.
QueryResults(entries, qvec, n_results) ==
    LET all == {QueryResult(e, qvec) : e \in entries}
        k == Min(n_results, Cardinality(all))
    IN  { res \in [1..k -> all] :
            /\ \A i \in 1..k : \A j \in 1..k : i # j => res[i] # res[j]
            /\ IsNearestFirst(res)
            /\ \A r \in all : (\A i \in 1..k : res[i] # r) =>
                   \A i \in 1..k : res[i].distance <= r.distance }

\* What the embeddings request of _get_embedding meets
\* (vocabulary_db.py:87-96): a vector, or an exception (-> None).
EmbeddingOutcomes == {"vector", "error"}

\* rag_context of the run: absent (None) or a list of results.
RagNone == [is_none |-> TRUE, results |-> <<>>]

RagList(res) == [is_none |-> FALSE, results |-> res]

\* translation_worker.py:76  n_results=5
RAG_N_RESULTS == 5

\* ------------------------------------------------------------- state

VARIABLES
    workers,             \* TranslationWorker objects: id -> fields, thread, frame of run
    emitted,             \* id -> the signals run has emitted, in order (history)
    trace,               \* id -> the calls run has made and their ends, in order (history)
    queue,               \* events posted to the main thread, oldest first
    settings,            \* settings.current: the sections the pipeline reads
    world,               \* what the engine, the network and the provider can do
    frame,               \* a call of a core method made directly: its frame and history
    collections,         \* VocabularyDB: name -> collection of the ChromaDB client
    embedding_client,    \* VocabularyDB._embedding_client
    embedding_model,     \* VocabularyDB._embedding_model
    window,              \* MainWindow: translator, embedding inputs, status bar, buttons
    translation_worker,  \* MainWindow.translation_worker: a worker id, 0 for None
    dialogs,             \* start_translation calls blocked in QMessageBox.warning
    deferred,            \* QThread objects deleteLater() was called on
    created,             \* number of TranslationWorker objects constructed so far
    crashed              \* the process was aborted by qFatal

storeVars == <<collections, embedding_client, embedding_model>>

windowVars == <<window, translation_worker, dialogs, deferred, created, crashed>>

vars == <<workers, emitted, trace, queue, settings, world, frame, storeVars, windowVars>>

\* The frame of a call of recognize_text or of translate made directly on
\* the object, as a caller other than the worker makes it: the method,
\* its arguments, the loop index, where the call is ("call": not entered,
\* "loop": before an engine call or a request, "returned", "raised"), the
\* value returned or the description of the exception, the debug images
\* "debug_ocr_attempt_<n>.png" of the call that are on disk (by n), and as
\* history what each engine call or request met and the configuration
\* each engine call was made with.
NewCall(fn, translator, text, kwargs, max_retries) ==
    [fn |-> fn, translator |-> translator, text |-> text, kwargs |-> kwargs, max_retries |-> max_retries, attempt |-> 0, pc |-> "call", result |-> <<>>, met |-> <<>>, configs |-> <<>>, debug_files |-> {}]

\* No direct call is made.
NoCall ==
    NewCall("none", Translator("MockTranslator", "", "", ""), <<>>, [target_lang |-> "zh-CN"], 0)

\* The machine around the program, fixed for a behaviour.  In world "any"
\* a call of the OCR engine, a request of a translator and a request of the
\* embedding provider meet any of their outcomes; in world "plain" the
\* engine reads "a", a translation request is answered with "t", and the
\* embedding provider answers.
Worlds == {"any", "plain"}

EngineMeets ==
    IF world = "any" THEN EngineOutcomes
    ELSE {o \in EngineOutcomes : o.kind = "text" /\ o.text = <<"a">>}

NetMeets(translator) ==
    IF world = "any" THEN NetOutcomes(translator)
    ELSE {o \in NetOutcomes(translator) : o.shape = "ok" /\ o.text = <<"t">>}

EmbeddingMeets ==
    IF world = "any" THEN EmbeddingOutcomes ELSE {"vector"}

\* ------------------------------------ core/translation_worker.py

\* translation_worker.py:54  "OCR未能识别到任何文本"
MSG_OCR_NO_TEXT == <<"OCR could not recognize any text">>
\* translation_worker.py:61  "没有提供翻译任务"
MSG_NO_TASK == <<"no translation task provided">>
\* translation_worker.py:102  f"翻译时发生错误: {str(e)}"
MSG_ERROR(description) == <<"error during translation: ">> \o description

\* str(e) of the exception of an OCR engine object whose recognize_text raises.
OCR_ENGINE_EXCEPTION == <<"recognize_text raised">>

\* The ocr_engine argument: None, an OCREngine, or another object whose
\* recognize_text raises (translation_worker.py:20, 51).
OcrEngines == {"None", "OCREngine", "Raising"}

\* The rag_vocabulary_name argument: None, "" or the name of a book.
NoName == "None"

RagNames == {NoName, "", Book}

TargetLangs == {"zh-CN"}

\* TranslationWorker.__init__ (translation_worker.py:20-40) and start():
\* the object, its thread running, run about to begin.  The locals of run
\* (attempt, original_text, rag_context, kwargs) keep, after run returns,
\* the values they had at the return.  Three fields are history:
\*   ocr_all_empty  every OCR attempt the run made yielded an empty text
\*   raised         str(e) of the exception a stage raised into run's
\*                  outer handler, None if none did
\*   http_status    the status of the last response to a translate request
NewWorker(translator, target_lang, ocr_engine, screenshot, text_to_translate, vocabulary_db, rag_vocabulary_name) ==
    [translator |-> translator, target_lang |-> target_lang,
     ocr_engine |-> ocr_engine, screenshot |-> screenshot,
     text_to_translate |-> text_to_translate,
     vocabulary_db |-> vocabulary_db,
     rag_vocabulary_name |-> rag_vocabulary_name,
     thread |-> "running", pc |-> "begin", attempt |-> 0,
     original_text |-> <<>>, rag_context |-> RagNone,
     kwargs |-> [target_lang |-> target_lang],
     ocr_all_empty |-> FALSE, raised |-> None, http_status |-> "none"]

Signal(name, w, original_text, translated_text, error_message) ==
    [signal |-> name, worker |-> w, original_text |-> original_text,
     translated_text |-> translated_text, error_message |-> error_message]

Successful(w, original_text, translated_text) ==
    Signal("translation_successful", w, original_text, translated_text, None)

Failed(w, error_message) ==
    Signal("translation_failed", w, None, None, error_message)

Finished(w) == Signal("finished", w, None, None, None)

Running(w) == w \in DOMAIN workers /\ workers[w].thread = "running"

At(w, pc) == Running(w) /\ workers[w].pc = pc /\ ~crashed

\* Variant of Return: run starts over instead of returning.
Rerun(worker) == [worker EXCEPT !.pc = "begin"]

\* run returns.
Return(worker) == [worker EXCEPT !.pc = "returned"]

\* Variant of EmitAndReturn: run returns without emitting.
ReturnSilently(w, me, sig, events) ==
    /\ trace' = [trace EXCEPT ![w] = @ \o events]
    /\ workers' = [workers EXCEPT ![w] = Return(me)]
    /\ UNCHANGED <<emitted, queue>>

\* self.translation_failed.emit(msg); return  (translation_worker.py:54-55,
\* 61-62), the last statement of the try block (translation_worker.py:98)
\* and the handler of translation_worker.py:100-102, after the calls
\* `events` of this step.  The signal is queued to the main thread.
EmitAndReturn(w, me, sig, events) ==
    /\ emitted' = [emitted EXCEPT ![w] = Append(@, sig)]
    /\ queue' = Append(queue, sig)
    /\ trace' = [trace EXCEPT ![w] = @ \o events \o <<"emit">>]
    /\ workers' = [workers EXCEPT ![w] = Return(me)]

\* translation_worker.py:46-62: the source of original_text, up to the call
\* of recognize_text.
RunBegin(w) ==
    /\ At(w, "begin")
    /\ LET me == workers[w] IN
       IF me.screenshot /\ me.ocr_engine # "None"
       THEN \* Path 1: OCR from the screenshot
            IF me.ocr_engine = "Raising"
            THEN EmitAndReturn(w, [me EXCEPT !.raised = OCR_ENGINE_EXCEPTION],
                               Failed(w, MSG_ERROR(OCR_ENGINE_EXCEPTION)),
                               <<"recognize_text", "recognize_text.raise">>)
            ELSE /\ workers' = [workers EXCEPT ![w].pc = "ocr",
                                               ![w].ocr_all_empty = TRUE]
                 /\ trace' = [trace EXCEPT ![w] = Append(@, "recognize_text")]
                 /\ UNCHANGED <<emitted, queue>>
       ELSE IF me.text_to_translate # None
       THEN \* Path 2: the text given
            /\ workers' = [workers EXCEPT ![w].pc = "rag",
                                          ![w].original_text = me.text_to_translate]
            /\ UNCHANGED <<emitted, queue, trace>>
       ELSE \* no task
            EmitAndReturn(w, me, Failed(w, MSG_NO_TASK), <<>>)
    /\ UNCHANGED <<settings, world, frame, storeVars, windowVars>>

\* One attempt of recognize_text (ocr.py:55-148) and, when it returns, the
\* test of translation_worker.py:52-55.
RunOcr(w) ==
    /\ At(w, "ocr")
    /\ \E o \in EngineMeets :
         LET me == [workers[w] EXCEPT
                       !.ocr_all_empty =
                           @ /\ o.kind = "text" /\ Strip(o.text) = <<>>]
             it == OcrIteration(me.attempt, o, OCR_MAX_RETRIES)
             text == IF it.done THEN it.text ELSE OCR_ALL_RETRIES_FAILED
         IN  IF ~it.done /\ me.attempt + 1 < OCR_MAX_RETRIES
             THEN /\ workers' = [workers EXCEPT
                                    ![w] = [me EXCEPT !.attempt = @ + 1]]
                  /\ UNCHANGED <<emitted, queue, trace>>
             ELSE IF text = <<>> \/ Strip(text) = <<>>
             THEN EmitAndReturn(w, me, Failed(w, MSG_OCR_NO_TEXT),
                                <<"recognize_text.return">>)
             ELSE /\ workers' = [workers EXCEPT
                                    ![w] = [me EXCEPT !.pc = "rag", !.attempt = 0,
                                                      !.original_text = text]]
                  /\ trace' = [trace EXCEPT ![w] = Append(@, "recognize_text.return")]
                  /\ UNCHANGED <<emitted, queue>>
    /\ UNCHANGED <<settings, world, frame, storeVars, windowVars>>

\* Python truthiness of a setting value (None is "None").
Set(v) == v # "" /\ v # "None"

\* VocabularyDB.__init__ (vocabulary_db.py:26-27): no client, no model.
NoClient == [api_key |-> "None", base_url |-> "None"]

\* Variant of ConfigureEmbeddingProvider: the client is built from the
\* arguments before they are tested.
ConfigureEmbeddingProviderUntested(api_key, base_url, model) ==
    IF ~(Set(api_key) /\ Set(base_url) /\ Set(model))
    THEN [raised |-> TRUE, client |-> [api_key |-> api_key, base_url |-> base_url],
          model |-> embedding_model]
    ELSE [raised |-> FALSE,
          client |-> [api_key |-> api_key, base_url |-> base_url],
          model |-> model]

\* VocabularyDB.configure_embedding_provider (vocabulary_db.py:48-72).
\* The value is the new (_embedding_client, _embedding_model), or the
\* ValueError raised before anything is assigned.
ConfigureEmbeddingProvider(api_key, base_url, model) ==
    IF ~(Set(api_key) /\ Set(base_url) /\ Set(model))
    THEN [raised |-> TRUE, client |-> embedding_client, model |-> embedding_model]
    ELSE [raised |-> FALSE,
          client |-> [api_key |-> api_key, base_url |-> base_url],
          model |-> model]

\* Variant of EmbeddingConfigured: only the key is tested.
KeyConfigured(e) == Set(e.api_key)

\* translation_worker.py:74  if all([api_key, base_url, model])
EmbeddingConfigured(e) == Set(e.api_key) /\ Set(e.base_url) /\ Set(e.model)

\* translation_worker.py:66  if self.vocabulary_db and self.rag_vocabulary_name
RagRequested(worker) == worker.vocabulary_db /\ Set(worker.rag_vocabulary_name)

\* Variant of RagExcept: the exception of the RAG block reaches the outer
\* handler of run (translation_worker.py:100-102).
RagPropagate(w, me, events) ==
    EmitAndReturn(w, [me EXCEPT !.raised = <<"retrieval raised">>],
                  Failed(w, MSG_ERROR(<<"retrieval raised">>)), events)

\* translation_worker.py:79-80: the handler of the RAG block logs the
\* exception; run goes on to translate with the rag_context it had.
RagExcept(w, me, events) ==
    /\ workers' = [workers EXCEPT ![w] = [me EXCEPT !.pc = "translate"]]
    /\ trace' = [trace EXCEPT ![w] = @ \o events]
    /\ UNCHANGED <<emitted, queue>>

\* translation_worker.py:64-75 and 77-78: the guard of the RAG block, the
\* three settings, and the configure call on the shared VocabularyDB.
RunRag(w) ==
    /\ At(w, "rag")
    /\ LET me == workers[w]
           e == settings.embedding
       IN
       IF RagRequested(me) /\ EmbeddingConfigured(e)
       THEN LET c == ConfigureEmbeddingProvider(e.api_key, e.base_url, e.model) IN
            /\ embedding_client' = c.client
            /\ embedding_model' = c.model
            /\ IF c.raised
               THEN RagExcept(w, me, <<"configure_embedding_provider",
                                       "configure_embedding_provider.raise">>)
               ELSE /\ workers' = [workers EXCEPT ![w].pc = "query"]
                    /\ trace' = [trace EXCEPT
                                    ![w] = @ \o <<"configure_embedding_provider",
                                                  "configure_embedding_provider.return">>]
                    /\ UNCHANGED <<emitted, queue>>
       ELSE /\ workers' = [workers EXCEPT ![w].pc = "translate"]
            /\ UNCHANGED <<embedding_client, embedding_model, trace, emitted, queue>>
    /\ UNCHANGED <<settings, world, frame, collections, windowVars>>

\* Variant of QueryOutcomes: the exception of the embedding request is
\* not caught.
QueryOutcomesUncaught(collection_name, query_text, n_results, embed) ==
    IF collection_name \notin CollectionNames
       \/ ~collections[collection_name].exists
    THEN {[raised |-> TRUE, context |-> RagNone]}
    ELSE IF embedding_client = NoClient \/ ~Set(embedding_model)
    THEN {[raised |-> TRUE, context |-> RagNone]}
    ELSE IF embed = "error"
    THEN {[raised |-> TRUE, context |-> RagNone]}
    ELSE {[raised |-> FALSE, context |-> RagList(res)] :
             res \in QueryResults(collections[collection_name].entries,
                                  Embedding(embedding_model, query_text),
                                  n_results)}

\* VocabularyDB.query(collection_name, query_text, n_results)
\* (vocabulary_db.py:190-223): the results it may return, or a raise.
\*   raised   get_collection of a missing collection (vocabulary_db.py:46),
\*            or _get_embedding unconfigured (vocabulary_db.py:84-85)
\*   None     the embedding request failed (vocabulary_db.py:205-206)
QueryOutcomes(collection_name, query_text, n_results, embed) ==
    IF collection_name \notin CollectionNames
       \/ ~collections[collection_name].exists
    THEN {[raised |-> TRUE, context |-> RagNone]}
    ELSE IF embedding_client = NoClient \/ ~Set(embedding_model)
    THEN {[raised |-> TRUE, context |-> RagNone]}
    ELSE IF embed = "error"
    THEN {[raised |-> FALSE, context |-> RagNone]}
    ELSE {[raised |-> FALSE, context |-> RagList(res)] :
             res \in QueryResults(collections[collection_name].entries,
                                  Embedding(embedding_model, query_text),
                                  n_results)}

\* translation_worker.py:76: the query and the assignment of its result.
RunQuery(w) ==
    /\ At(w, "query")
    /\ LET me == workers[w] IN
       \E embed \in EmbeddingMeets :
       \E q \in QueryOutcomes(me.rag_vocabulary_name, me.original_text,
                              RAG_N_RESULTS, embed) :
          IF q.raised
          THEN RagExcept(w, me, <<"query", "query.raise">>)
          ELSE /\ workers' = [workers EXCEPT ![w].pc = "translate",
                                             ![w].rag_context = q.context]
               /\ trace' = [trace EXCEPT ![w] = @ \o <<"query", "query.return">>]
               /\ UNCHANGED <<emitted, queue>>
    /\ UNCHANGED <<settings, world, frame, storeVars, windowVars>>

\* Variant of TranslateKwargs: the context is passed whenever retrieved.
TranslateKwargsUnchecked(translator, target_lang, rag_context) ==
    IF ~rag_context.is_none
    THEN [target_lang |-> target_lang, rag_context |-> rag_context.results]
    ELSE [target_lang |-> target_lang]

\* translation_worker.py:84-92: the keyword arguments of the translate call.
TranslateKwargs(translator, target_lang, rag_context) ==
    IF ~rag_context.is_none /\ DeclaresRagContext(translator)
    THEN [target_lang |-> target_lang, rag_context |-> rag_context.results]
    ELSE [target_lang |-> target_lang]

\* Variant of EndTranslate: an exception of translate is swallowed and the
\* run reports success with the description as the translation.
EndTranslateSwallow(w, me, raised, text, events) ==
    EmitAndReturn(w, me, Successful(w, me.original_text, text),
                  events \o <<"translate.return">>)

\* translation_worker.py:93-102: the end of the translate call.
EndTranslate(w, me, raised, text, events) ==
    IF raised
    THEN EmitAndReturn(w, me, Failed(w, MSG_ERROR(text)),
                       events \o <<"translate.raise">>)
    ELSE EmitAndReturn(w, me, Successful(w, me.original_text, text),
                       events \o <<"translate.return">>)

\* translation_worker.py:82-93: the translate call up to its first request
\* (and to its end, when it makes none).
RunTranslate(w) ==
    /\ At(w, "translate")
    /\ LET kwargs == TranslateKwargs(workers[w].translator, workers[w].target_lang,
                                     workers[w].rag_context)
           b == TranslateBegin(workers[w].translator, workers[w].original_text,
                               kwargs)
           me == [workers[w] EXCEPT
                     !.kwargs = kwargs,
                     !.raised = IF b.raised THEN b.text ELSE None]
       IN  IF b.done
           THEN EndTranslate(w, me, b.raised, b.text, <<"translate">>)
           ELSE /\ workers' = [workers EXCEPT
                                  ![w] = [me EXCEPT !.pc = "request", !.attempt = 0]]
                /\ trace' = [trace EXCEPT ![w] = Append(@, "translate")]
                /\ UNCHANGED <<emitted, queue>>
    /\ UNCHANGED <<settings, world, frame, storeVars, windowVars>>

\* One request of the translator's retry loop (translator.py:49-125,
\* llm_translator.py:106-143) and, when translate returns, the signal.
RunRequest(w) ==
    /\ At(w, "request")
    /\ \E o \in NetMeets(workers[w].translator) :
          LET me == [workers[w] EXCEPT !.http_status = o.status]
              it == TranslateIteration(me.translator, me.original_text, me.attempt, o)
          IN  IF it.done
              THEN EndTranslate(w, me, FALSE, it.text, <<>>)
              ELSE IF me.attempt + 1 < MaxRetries(me.translator)
              THEN /\ workers' = [workers EXCEPT
                                     ![w] = [me EXCEPT !.attempt = @ + 1]]
                   /\ UNCHANGED <<emitted, queue, trace>>
              ELSE EndTranslate(w, me, FALSE,
                                TranslateExhausted(me.translator, me.original_text),
                                <<>>)
    /\ UNCHANGED <<settings, world, frame, storeVars, windowVars>>

Remove(f, w) == [x \in DOMAIN f \ {w} |-> f[x]]

\* Nothing refers to the worker object any more: it was not made by a
\* caller that keeps it (only the main window drops its workers), it is not
\* MainWindow.translation_worker, and no deleteLater() is pending on it.
Unreferenced(w) ==
    /\ window.exists
    /\ translation_worker # w
    /\ \A d \in deferred : d.worker # w

\* run has returned.  QThread emits finished (queued to the main thread)
\* and isRunning() is False from then on.  A worker that lost its last
\* reference while running is destroyed as run's frame lets go of it, its
\* thread not yet finished: the destructor either waits for the thread or
\* aborts the process (qFatal "QThread: Destroyed while thread is still
\* running").
ThreadFinish(w) ==
    /\ At(w, "returned")
    /\ IF Unreferenced(w)
       THEN \E fatal \in BOOLEAN :
               IF fatal
               THEN /\ crashed' = TRUE
                    /\ UNCHANGED <<workers, emitted, trace, queue>>
               ELSE /\ workers' = Remove(workers, w)
                    /\ emitted' = Remove(emitted, w)
                    /\ trace' = Remove(trace, w)
                    /\ queue' = Append(queue, Finished(w))
                    /\ UNCHANGED crashed
       ELSE /\ workers' = [workers EXCEPT ![w].thread = "finished"]
            /\ queue' = Append(queue, Finished(w))
            /\ UNCHANGED <<emitted, trace, crashed>>
    /\ UNCHANGED <<settings, world, frame, storeVars, window, translation_worker, dialogs,
                   deferred, created>>

WorkerStep(w) ==
    \/ RunBegin(w)
    \/ RunOcr(w)
    \/ RunRag(w)
    \/ RunQuery(w)
    \/ RunTranslate(w)
    \/ RunRequest(w)
    \/ ThreadFinish(w)

\* ------------------------------------------- the pipeline on its own

\* main_window.py:1296  "无": no RAG vocabulary selected.
NO_VOCABULARY == "none selected"

\* settings.current as the pipeline reads it (settings.py:81-86): the
\* translation service, the RAG vocabulary of the LLM section, and the
\* embedding section; a missing key reads as None.
DefaultEmbedding == [api_key |-> "None", base_url |-> "None", model |-> "None"]

EmbeddingSettings ==
    { e \in [api_key : SettingValues, base_url : SettingValues, model : SettingValues] :
        Cardinality({f \in {"api_key", "base_url", "model"} : e[f] = ""}) <= 1 }
    \cup {DefaultEmbedding}

\* No MainWindow: the worker is made and started by another caller.
NoWindow ==
    [exists |-> FALSE, translator |-> Translator("MockTranslator", "", "", ""),
     embedding_inputs |-> DefaultEmbedding, status |-> <<>>, buttons |-> TRUE,
     current_screenshot |-> FALSE, selector |-> FALSE,
     source_text |-> <<>>, translated_text |-> <<>>]

\* The arguments a TranslationWorker is constructed with
\* (translation_worker.py:20).  An argument the run cannot read (the text
\* when OCR is taken, the engine when there is no screenshot) has one value.
WorkerArguments ==
    { a \in [translator : Translators, target_lang : TargetLangs,
             ocr_engine : OcrEngines, screenshot : BOOLEAN,
             text_to_translate : Texts \cup {None},
             vocabulary_db : BOOLEAN, rag_vocabulary_name : RagNames] :
        /\ (a.screenshot /\ a.ocr_engine # "None") =>
               a.text_to_translate \in {None, <<"a">>}
        /\ ~a.screenshot => a.ocr_engine \in {"None", "OCREngine"}
        /\ (~a.screenshot /\ a.ocr_engine = "OCREngine") =>
               a.text_to_translate = None }

\* One TranslationWorker constructed with any arguments and started, a
\* VocabularyDB just constructed over any store.  The store and the
\* embedding settings have one value when the RAG block is off.
Init ==
    /\ \E a \in WorkerArguments :
          LET me == NewWorker(a.translator, a.target_lang, a.ocr_engine,
                              a.screenshot, a.text_to_translate,
                              a.vocabulary_db, a.rag_vocabulary_name)
          IN  /\ workers = [w \in {1} |-> me]
              /\ settings \in
                    {[service |-> "other", rag_vocabulary |-> NO_VOCABULARY,
                      embedding |-> e] :
                        e \in IF RagRequested(me) THEN EmbeddingSettings
                              ELSE {DefaultEmbedding}}
              /\ collections \in
                    IF RagRequested(me) THEN Stores
                    ELSE {[n \in CollectionNames |-> Absent]}
    /\ world = "any"
    /\ embedding_client = NoClient
    /\ embedding_model = "None"
    /\ emitted = [w \in {1} |-> <<>>]
    /\ trace = [w \in {1} |-> <<>>]
    /\ queue = <<>>
    /\ window = NoWindow
    /\ translation_worker = 0
    /\ dialogs = <<>>
    /\ deferred = {}
    /\ created = 1
    /\ crashed = FALSE
    /\ frame = NoCall

Next == \E w \in 1..MaxWorkers : WorkerStep(w)

Spec == Init /\ [][Next]_vars

\* The threads are scheduled: a run whose next step is enabled takes it.
FairSpec == Spec /\ \A w \in 1..MaxWorkers : WF_vars(WorkerStep(w))

\* ------------------------------------------------ ui/main_window.py

\* main_window.py:1281  "翻译任务已在进行中"
STATUS_ALREADY_RUNNING == <<"translation already in progress">>
\* main_window.py:1287  "正在处理..."
STATUS_PROCESSING == <<"processing...">>
\* main_window.py:1332  "没有翻译任务"
STATUS_NO_TASK == <<"no translation task">>
\* main_window.py:1366  "翻译完成"
STATUS_DONE == <<"translation done">>
\* main_window.py:706  "全屏截图已捕获，请选择区域..."
STATUS_CAPTURED == <<"screen captured, select a region...">>
\* main_window.py:730  f"截屏错误: {str(e)}"
STATUS_CAPTURE_ERROR == <<"capture error: ", "ValueError">>
\* main_window.py:749  "正在识别文本..."
STATUS_RECOGNIZING == <<"recognizing text...">>
\* main_window.py:776  f"处理截图时出错: {str(e)}"
STATUS_SELECTION_ERROR == <<"error processing screenshot: ", "Exception">>
\* main_window.py:786  "没有文本可翻译"
STATUS_NO_TEXT == <<"no text to translate">>

\* get_translator (translator.py:149-168) under the settings.
get_translator(service, api_key, llm) ==
    IF service = "microsoft"
    THEN IF api_key = "" THEN Translator("MockTranslator", "", "", "")
         ELSE Translator("MicrosoftTranslator", api_key, "", "")
    ELSE IF service = "llm"
    THEN Translator("LLMTranslator", llm.api_key, llm.base_url, llm.model)
    ELSE Translator("MockTranslator", "", "", "")

\* QThread.isRunning() of MainWindow.translation_worker.
IsRunning(w) == w \in DOMAIN workers /\ workers[w].thread = "running"

\* The runs started by the main window that are running.
RunningWorkers == {w \in DOMAIN workers : workers[w].thread = "running"}

Extend(f, w, v) == [x \in DOMAIN f \cup {w} |-> IF x = w THEN v ELSE f[x]]

\* The worker objects left once MainWindow.translation_worker is `ref`: a
\* finished worker nothing refers to any more is destroyed.
Collect(ws, ref) ==
    {w \in DOMAIN ws :
        \/ w = ref
        \/ ws[w].thread = "running"
        \/ \E d \in deferred : d.worker = w}

Restrict(f, keep) == [x \in keep |-> f[x]]

\* main_window.py:1311-1344: the worker is made for the task, assigned to
\* self.translation_worker, its signals connected, and started; without a
\* task the UI is restored.
CreateWorker(screenshot, text_to_translate, rag_vocab_name) ==
    LET vocabulary_db == rag_vocab_name # NoName
        id == created + 1
        me == IF screenshot
              THEN NewWorker(window.translator, "zh-CN", "OCREngine", TRUE, None,
                             vocabulary_db, rag_vocab_name)
              ELSE NewWorker(window.translator, "zh-CN", "None", FALSE,
                             text_to_translate, vocabulary_db, rag_vocab_name)
    IN  IF screenshot \/ Truthy(text_to_translate)
        THEN LET keep == Collect(Extend(workers, id, me), id) IN
             /\ workers' = Restrict(Extend(workers, id, me), keep)
             /\ emitted' = Restrict(Extend(emitted, id, <<>>), keep)
             /\ trace' = Restrict(Extend(trace, id, <<>>), keep)
             /\ translation_worker' = id
             /\ created' = id
             /\ window' = [window EXCEPT !.status = STATUS_PROCESSING,
                                         !.buttons = FALSE,
                                         !.current_screenshot =
                                             IF screenshot THEN FALSE ELSE @,
                                         !.selector = IF screenshot THEN FALSE ELSE @]
        ELSE /\ window' = [window EXCEPT !.status = STATUS_NO_TASK,
                                         !.buttons = TRUE]
             /\ UNCHANGED <<workers, emitted, trace, translation_worker, created>>

\* main_window.py:1292-1307: the RAG vocabulary of the run, and whether the
\* embedding inputs of the settings tab are complete.
RagVocabularyName ==
    IF settings.service # "llm" THEN NoName
    ELSE IF settings.rag_vocabulary \in {"", "None", NO_VOCABULARY} THEN NoName
    ELSE settings.rag_vocabulary

EmbeddingInputsComplete ==
    /\ window.embedding_inputs.api_key = "k"
    /\ window.embedding_inputs.base_url = "k"
    /\ window.embedding_inputs.model = "k"

\* MainWindow.start_translation (main_window.py:1273-1344), up to the
\* return of the call or to QMessageBox.warning (main_window.py:1306),
\* which blocks the call in a nested event loop until the box is closed.
start_translation(screenshot, text_to_translate) ==
    IF translation_worker # 0 /\ IsRunning(translation_worker)
    THEN /\ window' = [window EXCEPT
                          !.status = STATUS_ALREADY_RUNNING,
                          !.current_screenshot = IF screenshot THEN FALSE ELSE @,
                          !.selector = IF screenshot THEN FALSE ELSE @]
         /\ UNCHANGED <<workers, emitted, trace, translation_worker, created,
                        dialogs>>
    ELSE IF RagVocabularyName # NoName /\ ~EmbeddingInputsComplete
    THEN /\ dialogs' = Append(dialogs, [screenshot |-> screenshot,
                                        text_to_translate |-> text_to_translate])
         /\ window' = [window EXCEPT
                          !.status = STATUS_PROCESSING, !.buttons = FALSE,
                          !.current_screenshot = IF screenshot THEN FALSE ELSE @,
                          !.selector = IF screenshot THEN FALSE ELSE @]
         /\ UNCHANGED <<workers, emitted, trace, translation_worker, created>>
    ELSE /\ CreateWorker(screenshot, text_to_translate, RagVocabularyName)
         /\ UNCHANGED dialogs

\* The main thread is between two events (also inside the nested event
\* loop of a message box), the process alive.  A call that may construct
\* a worker is taken while the behaviour has workers left.
MainIdle == window.exists /\ ~crashed

CanStart == created + Len(dialogs) < MaxWorkers

\* The texts of the source box translate_text may find.
SourceTexts == {t \in Texts : Len(t) <= 1}

\* MainWindow.translate_text (main_window.py:780-790), by its button or by
\* the translate hotkey, the source box holding source_text.
translate_text ==
    /\ MainIdle /\ CanStart
    /\ \E source_text \in SourceTexts :
          IF Strip(source_text) = <<>>
          THEN /\ window' = [window EXCEPT !.status = STATUS_NO_TEXT]
               /\ UNCHANGED <<workers, emitted, trace, translation_worker,
                              created, dialogs>>
          ELSE start_translation(FALSE, source_text)
    /\ UNCHANGED <<queue, settings, world, frame, storeVars, deferred, crashed>>

\* MainWindow.capture_screen (main_window.py:699-733), by its button or by
\* the capture hotkey: the screen is captured, or the capture fails.
capture_screen ==
    /\ MainIdle /\ ~window.selector
    /\ \E captured \in BOOLEAN :
          window' = IF captured
                    THEN [window EXCEPT !.status = STATUS_CAPTURED,
                                        !.current_screenshot = TRUE,
                                        !.selector = TRUE]
                    ELSE [window EXCEPT !.status = STATUS_CAPTURE_ERROR,
                                        !.current_screenshot = FALSE]
    /\ UNCHANGED <<workers, emitted, trace, queue, settings, world, frame, storeVars,
                   translation_worker, dialogs, deferred, created, crashed>>

\* MainWindow.process_screen_selection (main_window.py:735-778): the
\* selector reports a region; the crop succeeds or raises.
process_screen_selection ==
    /\ MainIdle /\ CanStart /\ window.selector
    /\ IF ~window.current_screenshot
       THEN /\ window' = [window EXCEPT !.selector = FALSE]
            /\ UNCHANGED <<workers, emitted, trace, translation_worker,
                           created, dialogs>>
       ELSE \E cropped \in BOOLEAN :
               IF cropped
               THEN start_translation(TRUE, None)
               ELSE /\ window' = [window EXCEPT
                                     !.status = STATUS_SELECTION_ERROR,
                                     !.current_screenshot = FALSE,
                                     !.selector = FALSE]
                    /\ UNCHANGED <<workers, emitted, trace, translation_worker,
                                   created, dialogs>>
    /\ UNCHANGED <<queue, settings, world, frame, storeVars, deferred, crashed>>

\* The message box of main_window.py:1306 is closed: start_translation
\* goes on from main_window.py:1307 with rag_vocab_name = None.
CloseDialog ==
    /\ MainIdle /\ dialogs # <<>>
    /\ LET call == dialogs[Len(dialogs)] IN
       /\ dialogs' = SubSeq(dialogs, 1, Len(dialogs) - 1)
       /\ CreateWorker(call.screenshot, call.text_to_translate, NoName)
    /\ UNCHANGED <<queue, settings, world, frame, storeVars, deferred, crashed>>

\* MainWindow.on_translation_successful (main_window.py:1346-1368).
on_translation_successful(original_text, translated_text) ==
    /\ window' = [window EXCEPT !.source_text = original_text,
                                !.translated_text = translated_text,
                                !.status = STATUS_DONE, !.buttons = TRUE]
    /\ UNCHANGED <<translation_worker, deferred>>

\* MainWindow.on_translation_failed (main_window.py:1370-1383).
on_translation_failed(error_message) ==
    /\ window' = [window EXCEPT !.status = error_message, !.buttons = TRUE]
    /\ UNCHANGED <<translation_worker, deferred>>

\* MainWindow.on_translation_finished (main_window.py:1385-1393): the slot
\* of every worker's finished signal.  deleteLater() posts a deferred
\* delete of the object, handled once control is back in the event loop
\* the slot was called from.
on_translation_finished ==
    /\ IF translation_worker # 0
       THEN /\ deferred' = deferred \cup {[worker |-> translation_worker,
                                           level |-> Len(dialogs)]}
            /\ translation_worker' = 0
       ELSE UNCHANGED <<translation_worker, deferred>>
    /\ UNCHANGED window

\* The main thread takes the oldest queued signal and calls its slot.
Dispatch ==
    /\ MainIdle /\ queue # <<>>
    /\ LET sig == Head(queue) IN
       CASE sig.signal = "translation_successful" ->
                on_translation_successful(sig.original_text, sig.translated_text)
         [] sig.signal = "translation_failed" ->
                on_translation_failed(sig.error_message)
         [] OTHER -> on_translation_finished
    /\ queue' = Tail(queue)
    /\ UNCHANGED <<workers, emitted, trace, settings, world, frame, storeVars, dialogs,
                   created, crashed>>

\* The event loop handles a deferred delete: the QThread object is
\* destroyed.  Destroying a QThread whose thread is running aborts the
\* process (qFatal "QThread: Destroyed while thread is still running").
DeferredDelete ==
    /\ MainIdle
    /\ \E d \in deferred :
          /\ Len(dialogs) <= d.level
          /\ deferred' = deferred \ {d}
          /\ IF IsRunning(d.worker)
             THEN /\ crashed' = TRUE
                  /\ UNCHANGED <<workers, emitted, trace>>
             ELSE /\ workers' = Remove(workers, d.worker)
                  /\ emitted' = Remove(emitted, d.worker)
                  /\ trace' = Remove(trace, d.worker)
                  /\ UNCHANGED crashed
    /\ UNCHANGED <<queue, settings, world, frame, storeVars, window, translation_worker,
                   dialogs, created>>

MainStep ==
    \/ translate_text
    \/ capture_screen
    \/ process_screen_selection
    \/ CloseDialog
    \/ Dispatch
    \/ DeferredDelete

\* The settings a session of the application runs under: the service, the
\* RAG vocabulary selected for the LLM, the embedding section and the
\* embedding inputs of the settings tab.
Profile(service, api_key, rag_vocabulary, embedding, inputs) ==
    [service |-> service, api_key |-> api_key, rag_vocabulary |-> rag_vocabulary,
     embedding |-> embedding, inputs |-> inputs]

AllSet == [api_key |-> "k", base_url |-> "k", model |-> "k"]

Profiles ==
    {Profile("microsoft", "k", NO_VOCABULARY, DefaultEmbedding, AllSet),
     Profile("other", "", NO_VOCABULARY, DefaultEmbedding, AllSet),
     Profile("llm", "k", Book, AllSet, AllSet),
     Profile("llm", "k", Book, AllSet, [AllSet EXCEPT !.model = ""])}

\* MainWindow.__init__ (main_window.py:55, 64): the translator of the
\* settings, no worker; the vocabulary store holds a book of one entry.
AppInit ==
    /\ \E p \in Profiles :
          /\ settings = [service |-> p.service, rag_vocabulary |-> p.rag_vocabulary,
                         embedding |-> p.embedding]
          /\ window = [exists |-> TRUE,
                       translator |-> get_translator(p.service, p.api_key, AllSet),
                       embedding_inputs |-> p.inputs, status |-> <<>>,
                       buttons |-> TRUE, current_screenshot |-> FALSE,
                       selector |-> FALSE, source_text |-> <<>>,
                       translated_text |-> <<>>]
    /\ collections =
          [n \in CollectionNames |->
              IF n = Book THEN Collection({NewEntry("k", <<"a">>, <<"t">>)})
              ELSE Absent]
    /\ world = "plain"
    /\ embedding_client = NoClient
    /\ embedding_model = "None"
    /\ workers = <<>>
    /\ emitted = <<>>
    /\ trace = <<>>
    /\ queue = <<>>
    /\ translation_worker = 0
    /\ dialogs = <<>>
    /\ deferred = {}
    /\ created = 0
    /\ crashed = FALSE
    /\ frame = NoCall

AppNext == MainStep \/ \E w \in 1..MaxWorkers : WorkerStep(w)

AppSpec == AppInit /\ [][AppNext]_vars

\* ------------------------------------- direct calls of the core methods

programVars == <<workers, emitted, trace, queue, settings, world, storeVars, windowVars>>

\* No worker and no window: only the object the call is made on.
NoProgram ==
    /\ workers = <<>>
    /\ emitted = <<>>
    /\ trace = <<>>
    /\ queue = <<>>
    /\ settings = [service |-> "other", rag_vocabulary |-> NO_VOCABULARY, embedding |-> DefaultEmbedding]
    /\ world = "any"
    /\ collections = [n \in CollectionNames |-> Absent]
    /\ embedding_client = NoClient
    /\ embedding_model = "None"
    /\ window = NoWindow
    /\ translation_worker = 0
    /\ dialogs = <<>>
    /\ deferred = {}
    /\ created = 0
    /\ crashed = FALSE

\* translator.translate(text, target_lang=...) up to its first request
\* (translator.py:35-46, translator.py:143-146, llm_translator.py:79-104,
\* translation_service.py:20).
CallTranslate ==
    /\ frame.fn = "translate"
    /\ frame.pc = "call"
    /\ LET b == TranslateBegin(frame.translator, frame.text, frame.kwargs) IN
         frame' = [frame EXCEPT !.result = b.text,
                                !.pc = IF b.raised THEN "raised"
                                       ELSE IF b.done THEN "returned" ELSE "loop"]
    /\ UNCHANGED programVars

\* Variant of LoopStep: the loop is left after the first pass, whatever the
\* pass decided.
LoopStepOnce(seen, it, max_retries, exhausted) ==
    [seen EXCEPT !.pc = "returned", !.result = IF it.done THEN it.text ELSE exhausted]

\* `for attempt in range(max_retries)` around one pass of a loop body
\* (translator.py:49, llm_translator.py:106, ocr.py:55): the frame after a
\* pass that decided it (return it.text, or go on), `exhausted` being the
\* value returned below the loop.
LoopStep(seen, it, max_retries, exhausted) ==
    IF it.done THEN [seen EXCEPT !.pc = "returned", !.result = it.text]
    ELSE IF seen.attempt + 1 < max_retries THEN [seen EXCEPT !.attempt = @ + 1]
    ELSE [seen EXCEPT !.pc = "returned", !.result = exhausted]

\* One pass of the retry loop of translate (translator.py:49-125,
\* llm_translator.py:106-143): the request is made and meets o.
Request ==
    /\ frame.fn = "translate"
    /\ frame.pc = "loop"
    /\ \E o \in NetMeets(frame.translator) :
          LET seen == [frame EXCEPT !.met = Append(@, o)]
              it == TranslateIteration(frame.translator, frame.text, frame.attempt, o)
          IN  frame' = LoopStep(seen, it, MaxRetries(frame.translator),
                                TranslateExhausted(frame.translator, frame.text))
    /\ UNCHANGED programVars

\* A translator of any class and configuration, about to be called with
\* any text and the keyword the pipeline always passes.
BackendInit ==
    /\ NoProgram
    /\ frame \in {NewCall("translate", t, x, [target_lang |-> l], MaxRetries(t)) :
                     t \in Translators, x \in Texts, l \in TargetLangs}

BackendNext == CallTranslate \/ Request

BackendSpec == BackendInit /\ [][BackendNext]_vars

\* The values of the max_retries argument of recognize_text (ocr.py:43);
\* the worker passes none and gets the default.
OcrRetryArguments == 1..OCR_MAX_RETRIES

\* The return paths of an attempt that call _cleanup_debug_files
\* (ocr.py:92-102, ocr.py:150-163): a text was found, or the last attempt
\* found none.  The files are taken to be removable.
CleansUp(attempt, o, max_retries) ==
    /\ o.kind = "text"
    /\ (Strip(o.text) # <<>> \/ attempt = max_retries - 1)

\* From the second attempt on the image is saved as a debug file before
\* the engine is called (ocr.py:64-69).
\* One pass of the loop of recognize_text (ocr.py:55-148) with the
\* configuration of the attempt; the engine call meets o.
EngineCall ==
    /\ frame.fn = "recognize_text"
    /\ frame.pc = "loop"
    /\ \E o \in EngineMeets :
          LET saved == IF frame.attempt > 0 THEN frame.debug_files \cup {frame.attempt}
                       ELSE frame.debug_files
              seen == [frame EXCEPT !.met = Append(@, o),
                                    !.configs = Append(@, OcrConfig(frame.attempt)),
                                    !.debug_files =
                                        IF CleansUp(frame.attempt, o, frame.max_retries)
                                        THEN {} ELSE saved]
              it == OcrIteration(frame.attempt, o, frame.max_retries)
          IN  frame' = LoopStep(seen, it, frame.max_retries, OCR_ALL_RETRIES_FAILED)
    /\ UNCHANGED programVars

\* An OCREngine whose recognize_text has just been called on an image.
OcrInit ==
    /\ NoProgram
    /\ frame \in {[NewCall("recognize_text", NoCall.translator, <<>>, NoCall.kwargs, n) EXCEPT !.pc = "loop"] :
                     n \in OcrRetryArguments}

OcrNext == EngineCall

OcrSpec == OcrInit /\ [][OcrNext]_vars

\* ------------------------------------- direct calls of the VocabularyDB

\* The number of VocabularyDB calls made in one behaviour.
MaxCalls == 2

\* The original texts, translations and entry ids the calls are made with.
StoreTexts == {<<"a">>, <<"A">>, <<"a", " ">>}

Translations == {<<"t">>, <<"u">>}

EntryIds == {DocId(x) : x \in StoreTexts}

\* Variant of Upsert: the entry is inserted next to the one of its id.
UpsertBeside(entries, e) == entries \cup {e}

\* collection.upsert of one entry (vocabulary_db.py:153-158, 183-188): the
\* entry of the same id, if any, is replaced.
Upsert(entries, e) == {x \in entries : x.id # e.id} \cup {e}

\* collection.add of entries (vocabulary_db.py:123-128).  An id the
\* collection already holds is either ignored, the stored entry kept, or
\* makes the whole add raise, depending on the ChromaDB release.
AddOutcomes(entries, data) ==
    IF \E x \in entries : \E d \in data : x.id = d.id
    THEN {[raised |-> TRUE, entries |-> entries],
          [raised |-> FALSE,
           entries |-> entries \cup {d \in data : \A x \in entries : x.id # d.id}]}
    ELSE {[raised |-> FALSE, entries |-> entries \cup data]}

Exists(name) == collections[name].exists

\* The arguments of a configure_embedding_provider call; "" is an empty
\* argument.  A call of another method has none.
NoProvider == [api_key |-> "", base_url |-> "", model |-> ""]

ProviderArguments ==
    {[api_key |-> "k", base_url |-> "k", model |-> m] : m \in {"k", "k2", ""}} \cup
    {[api_key |-> "", base_url |-> "k", model |-> "k"],
     [api_key |-> "k", base_url |-> "", model |-> "k2"]}

\* The frame of a call of a VocabularyDB method: the method and its
\* arguments, where the call is ("returned", "raised", inside
\* rename_collection the statement it is before, "crashed": the process
\* died inside the call), the data rename_collection has read, the value
\* query returned, and as history the store and the provider as they were
\* when the call was made, what the embedding request met, whether an
\* update_entry was called so far, and the number of calls made so far.
StoreCall(fn, collection_name, new_name, entry_id, original_text, translation, pc, embedded) ==
    [fn |-> fn, collection_name |-> collection_name, new_name |-> new_name, entry_id |-> entry_id, original_text |-> original_text, translation |-> translation, pc |-> pc, embedded |-> embedded, data |-> {}, provider |-> NoProvider, result |-> RagNone, error |-> "none", before |-> collections, provider_before |-> <<embedding_client, embedding_model>>, updated |-> frame.updated \/ fn = "update_entry", calls |-> frame.calls + 1]

\* What a VocabularyDB method raises: the exception of get_collection for a
\* missing collection (vocabulary_db.py:46), the RuntimeError of
\* _get_embedding (vocabulary_db.py:84-85), the ValueError of
\* configure_embedding_provider (vocabulary_db.py:65-66), the exception
\* of collection.add for an id the collection holds.
COLLECTION_NOT_FOUND == "collection not found"

NOT_CONFIGURED == "Embedding provider is not configured. Call configure_embedding_provider() first."

MUST_BE_PROVIDED == "API key, base URL, and model must be provided for embedding configuration."

DUPLICATE_ID == "duplicate id"

\* The exception an add_entry, update_entry or query raises before it
\* embeds, "none" when it raises none.
Unready(collection_name) ==
    IF ~Exists(collection_name) THEN COLLECTION_NOT_FOUND
    ELSE IF embedding_client = NoClient \/ ~Set(embedding_model) THEN NOT_CONFIGURED
    ELSE "none"

\* No call is in progress: the next one can be made.
CanCall == frame.pc \in {"none", "returned", "raised", "crashed"} /\ frame.calls < MaxCalls

\* The method returns, or ends raising.
Ends(call, raised) == frame' = [call EXCEPT !.pc = IF raised THEN "raised" ELSE "returned"]

\* Variant of create_collection: the collection is made anew, empty, also
\* when it exists.
create_collection_anew(collection_name) ==
    /\ CanCall
    /\ collections' = [collections EXCEPT ![collection_name] = Collection({})]
    /\ Ends(StoreCall("create_collection", collection_name, collection_name, <<>>, <<>>, <<>>, "returned", "none"), FALSE)
    /\ UNCHANGED <<workers, emitted, trace, queue, settings, world, embedding_client, embedding_model, windowVars>>

\* VocabularyDB.create_collection (vocabulary_db.py:104-107).
create_collection(collection_name) ==
    /\ CanCall
    /\ collections' = [collections EXCEPT
                          ![collection_name] = IF @.exists THEN @ ELSE Collection({})]
    /\ Ends(StoreCall("create_collection", collection_name, collection_name, <<>>, <<>>, <<>>, "returned", "none"), FALSE)
    /\ UNCHANGED <<workers, emitted, trace, queue, settings, world, embedding_client, embedding_model, windowVars>>

\* Variant of WriteEntry: a failed embedding writes the entry with an empty
\* vector.
WriteEntryUnembedded(call, entry) ==
    IF ~Exists(call.collection_name) \/ embedding_client = NoClient \/ ~Set(embedding_model)
    THEN Ends([call EXCEPT !.embedded = "none", !.error = Unready(call.collection_name)], TRUE) /\ UNCHANGED collections
    ELSE /\ collections' = [collections EXCEPT
                               ![call.collection_name].entries =
                                   Upsert(@, IF call.embedded = "error"
                                             THEN [entry EXCEPT !.embedding.at = <<>>]
                                             ELSE entry)]
         /\ Ends(call, FALSE)

\* The body add_entry and update_entry share (vocabulary_db.py:142-158,
\* 171-188): get_collection raises for a missing collection,
\* _get_embedding raises when no provider is configured and gives None
\* when its request fails, in which case the method returns; otherwise the
\* entry is upserted.
WriteEntry(call, entry) ==
    IF ~Exists(call.collection_name) \/ embedding_client = NoClient \/ ~Set(embedding_model)
    THEN Ends([call EXCEPT !.embedded = "none", !.error = Unready(call.collection_name)], TRUE) /\ UNCHANGED collections
    ELSE IF call.embedded = "error"
    THEN Ends(call, FALSE) /\ UNCHANGED collections
    ELSE /\ collections' = [collections EXCEPT
                               ![call.collection_name].entries = Upsert(@, entry)]
         /\ Ends(call, FALSE)

\* VocabularyDB.add_entry (vocabulary_db.py:132-158).
add_entry(collection_name, original_text, translation) ==
    /\ CanCall
    /\ \E embed \in EmbeddingMeets :
          WriteEntry(StoreCall("add_entry", collection_name, collection_name, DocId(original_text), original_text, translation, "returned", embed),
                     NewEntry(embedding_model, original_text, translation))
    /\ UNCHANGED <<workers, emitted, trace, queue, settings, world, embedding_client, embedding_model, windowVars>>

\* Variant of update_entry: the entry is written under the id derived from
\* the new original text.
update_entry_rederived(collection_name, entry_id, new_original_text, new_translation) ==
    /\ CanCall
    /\ \E embed \in EmbeddingMeets :
          WriteEntry(StoreCall("update_entry", collection_name, collection_name, entry_id, new_original_text, new_translation, "returned", embed),
                     NewEntry(embedding_model, new_original_text, new_translation))
    /\ UNCHANGED <<workers, emitted, trace, queue, settings, world, embedding_client, embedding_model, windowVars>>

\* Variant of update_entry: the metadata and the document are rewritten,
\* the vector stored under the id is kept.
update_entry_stale_vector(collection_name, entry_id, new_original_text, new_translation) ==
    /\ CanCall
    /\ \E embed \in EmbeddingMeets :
          WriteEntry(StoreCall("update_entry", collection_name, collection_name, entry_id, new_original_text, new_translation, "returned", embed),
                     [NewEntry(embedding_model, new_original_text, new_translation) EXCEPT
                         !.id = entry_id,
                         !.embedding = IF \E x \in collections[collection_name].entries : x.id = entry_id
                                       THEN (CHOOSE x \in collections[collection_name].entries : x.id = entry_id).embedding
                                       ELSE @])
    /\ UNCHANGED <<workers, emitted, trace, queue, settings, world, embedding_client, embedding_model, windowVars>>

\* VocabularyDB.update_entry (vocabulary_db.py:160-188).
update_entry(collection_name, entry_id, new_original_text, new_translation) ==
    /\ CanCall
    /\ \E embed \in EmbeddingMeets :
          WriteEntry(StoreCall("update_entry", collection_name, collection_name, entry_id, new_original_text, new_translation, "returned", embed),
                     [NewEntry(embedding_model, new_original_text, new_translation) EXCEPT !.id = entry_id])
    /\ UNCHANGED <<workers, emitted, trace, queue, settings, world, embedding_client, embedding_model, windowVars>>

\* Variant of RenameStep: the old collection is deleted before the copy.
RenameStepDeleteFirst(call) ==
    CASE call.pc = "create" ->
            /\ collections' = [collections EXCEPT ![call.collection_name] = Absent]
            /\ frame' = [call EXCEPT !.pc = "add"]
      [] call.pc = "add" ->
            /\ collections' = [collections EXCEPT
                                  ![call.new_name] = Collection(call.data)]
            /\ frame' = [call EXCEPT !.pc = "returned"]
      [] OTHER -> FALSE

\* rename_collection after its read (vocabulary_db.py:121-130), one
\* client call a step: get_or_create_collection(new_name), add of the data
\* when there is any, delete_collection(old_name).
RenameStep(call) ==
    CASE call.pc = "create" ->
            /\ collections' = [collections EXCEPT
                                  ![call.new_name] = IF @.exists THEN @ ELSE Collection({})]
            /\ frame' = [call EXCEPT !.pc = IF call.data # {} THEN "add" ELSE "delete"]
      [] call.pc = "add" ->
            \E o \in AddOutcomes(collections[call.new_name].entries, call.data) :
               /\ collections' = [collections EXCEPT ![call.new_name].entries = o.entries]
               /\ frame' = [call EXCEPT !.pc = IF o.raised THEN "raised" ELSE "delete",
                                        !.error = IF o.raised THEN DUPLICATE_ID ELSE "none"]
      [] call.pc = "delete" ->
            /\ collections' = [collections EXCEPT ![call.collection_name] = Absent]
            /\ frame' = [call EXCEPT !.pc = "returned"]
      [] OTHER -> FALSE

\* VocabularyDB.rename_collection up to its read (vocabulary_db.py:114-119):
\* get_collection raises for a missing collection.
rename_collection(old_name, new_name) ==
    /\ CanCall
    /\ LET call == StoreCall("rename_collection", old_name, new_name, <<>>, <<>>, <<>>, "create", "none") IN
          IF ~Exists(old_name) THEN Ends([call EXCEPT !.error = COLLECTION_NOT_FOUND], TRUE)
          ELSE frame' = [call EXCEPT !.data = collections[old_name].entries]
    /\ UNCHANGED <<workers, emitted, trace, queue, settings, world, storeVars, windowVars>>

\* The next client call of a rename_collection in progress.
rename_collection_step ==
    /\ frame.fn = "rename_collection"
    /\ RenameStep(frame)
    /\ UNCHANGED <<workers, emitted, trace, queue, settings, world, embedding_client, embedding_model, windowVars>>

\* The process dies between two client calls of rename_collection; the
\* store on disk stays as it is.
Crash ==
    /\ frame.fn = "rename_collection"
    /\ frame.pc \in {"create", "add", "delete"}
    /\ frame' = [frame EXCEPT !.pc = "crashed"]
    /\ UNCHANGED <<workers, emitted, trace, queue, settings, world, storeVars, windowVars>>

\* VocabularyDB.delete_entry (vocabulary_db.py:258-267): get_collection
\* raises for a missing collection; the entries of the ids are removed.
delete_entry(collection_name, entry_ids) ==
    /\ CanCall
    /\ LET call == StoreCall("delete_entry", collection_name, collection_name, <<>>, <<>>, <<>>, "returned", "none") IN
          IF ~Exists(collection_name)
          THEN Ends([call EXCEPT !.error = COLLECTION_NOT_FOUND], TRUE) /\ UNCHANGED collections
          ELSE /\ collections' = [collections EXCEPT
                                     ![collection_name].entries = {x \in @ : x.id \notin entry_ids}]
               /\ Ends(call, FALSE)
    /\ UNCHANGED <<workers, emitted, trace, queue, settings, world, embedding_client, embedding_model, windowVars>>

\* VocabularyDB.configure_embedding_provider called directly
\* (vocabulary_db.py:48-72).
configure_embedding_provider(api_key, base_url, model) ==
    /\ CanCall
    /\ LET c == ConfigureEmbeddingProvider(api_key, base_url, model)
           call == StoreCall("configure_embedding_provider", Book, Book, <<>>, <<>>, <<>>, "returned", "none")
       IN  /\ embedding_client' = c.client
           /\ embedding_model' = c.model
           /\ Ends([call EXCEPT !.provider = [api_key |-> api_key, base_url |-> base_url, model |-> model],
                                 !.error = IF c.raised THEN MUST_BE_PROVIDED ELSE "none"],
                   c.raised)
    /\ UNCHANGED <<workers, emitted, trace, queue, settings, world, collections, windowVars>>

\* VocabularyDB.query called directly (vocabulary_db.py:190-223).
query(collection_name, query_text, n_results) ==
    /\ CanCall
    /\ \E embed \in EmbeddingMeets :
       \E q \in QueryOutcomes(collection_name, query_text, n_results, embed) :
          LET call == StoreCall("query", collection_name, collection_name, <<>>, query_text, <<>>, "returned", embed) IN
          Ends([call EXCEPT !.result = q.context,
                            !.embedded = IF Unready(collection_name) = "none" THEN embed ELSE "none",
                            !.error = Unready(collection_name)],
               q.raised)
    /\ UNCHANGED <<workers, emitted, trace, queue, settings, world, storeVars, windowVars>>

\* The stores a behaviour starts from: each book is missing, empty, or
\* holds entries that add_entry calls have written.
InitialStores ==
    { [n \in CollectionNames |-> IF n = Book THEN b ELSE c] :
        b \in {Absent, Collection({}),
               Collection({NewEntry("k", <<"a">>, <<"t">>)}),
               Collection({NewEntry("k", <<"a">>, <<"t">>), NewEntry("k", <<"a", " ">>, <<"t">>)})},
        c \in {Absent, Collection({}), Collection({NewEntry("k", <<"A">>, <<"u">>)})} }

\* A VocabularyDB over any of the stores, its embedding provider
\* configured or not, and no call made yet.
StoreInit ==
    /\ collections \in InitialStores
    /\ \E configured \in BOOLEAN :
          /\ embedding_client = IF configured THEN [api_key |-> "k", base_url |-> "k"] ELSE NoClient
          /\ embedding_model = IF configured THEN "k" ELSE "None"
    /\ frame = [fn |-> "none", collection_name |-> Book, new_name |-> Book, entry_id |-> <<>>, original_text |-> <<>>, translation |-> <<>>, pc |-> "none", embedded |-> "none", data |-> {}, provider |-> NoProvider, result |-> RagNone, error |-> "none", before |-> collections, provider_before |-> <<embedding_client, embedding_model>>, updated |-> FALSE, calls |-> 0]
    /\ workers = <<>>
    /\ emitted = <<>>
    /\ trace = <<>>
    /\ queue = <<>>
    /\ settings = [service |-> "other", rag_vocabulary |-> NO_VOCABULARY, embedding |-> DefaultEmbedding]
    /\ world = "any"
    /\ window = NoWindow
    /\ translation_worker = 0
    /\ dialogs = <<>>
    /\ deferred = {}
    /\ created = 0
    /\ crashed = FALSE

StoreNext ==
    \/ \E n \in CollectionNames : create_collection(n)
    \/ \E n \in CollectionNames, x \in StoreTexts, t \in Translations : add_entry(n, x, t)
    \/ \E n \in CollectionNames, i \in EntryIds, x \in StoreTexts, t \in Translations : update_entry(n, i, x, t)
    \/ \E old \in CollectionNames, new \in CollectionNames : rename_collection(old, new)
    \/ rename_collection_step
    \/ Crash
    \/ \E n \in CollectionNames, ids \in SUBSET EntryIds \ {{}} : delete_entry(n, ids)
    \/ \E a \in ProviderArguments : configure_embedding_provider(a.api_key, a.base_url, a.model)
    \/ \E n \in CollectionNames, x \in StoreTexts : query(n, x, RAG_N_RESULTS)

StoreSpec == StoreInit /\ [][StoreNext]_vars

\* ------------------------- two threads on the shared VocabularyDB

\* The main window hands its own VocabularyDB to every worker
\* (main_window.py:57, 1309-1326), so MainWindow.add_text_to_vocabulary on
\* the main thread (main_window.py:842-867) and the RAG block of
\* TranslationWorker.run on a worker thread (translation_worker.py:66-76)
\* call the same object.  Neither takes a lock: the threads interleave
\* between the statements of configure_embedding_provider and of
\* _get_embedding.
Threads == {"main", "worker"}

\* The complete providers a thread configures: the main thread reads the
\* inputs of the settings tab (main_window.py:844-846), the worker the
\* saved settings (translation_worker.py:71-73).
ConfiguredProviders ==
    {[api_key |-> a, base_url |-> "k", model |-> m] : a \in {"k", "k2"}, m \in {"k", "k2"}}

ClientOf(provider) == [api_key |-> provider.api_key, base_url |-> provider.base_url]

\* A thread at the statement pc of its calls, the provider it configures,
\* the client it has read for its request, and what its call returned.
ThreadAt(pc, provider) ==
    [pc |-> pc, provider |-> provider, client |-> NoClient, result |-> RagNone]

\* self._embedding_client = OpenAI(...) (vocabulary_db.py:68-71).
set_client(t) ==
    /\ frame.threads[t].pc = "client"
    /\ embedding_client' = ClientOf(frame.threads[t].provider)
    /\ frame' = [frame EXCEPT !.threads[t].pc = "model"]
    /\ UNCHANGED <<workers, emitted, trace, queue, settings, world, collections, embedding_model, windowVars>>

\* self._embedding_model = model (vocabulary_db.py:72); configure returns
\* and the thread calls add_entry or query, which gets the collection and
\* calls _get_embedding.
set_model(t) ==
    /\ frame.threads[t].pc = "model"
    /\ embedding_model' = frame.threads[t].provider.model
    /\ frame' = [frame EXCEPT !.threads[t].pc = "embed"]
    /\ UNCHANGED <<workers, emitted, trace, queue, settings, world, collections, embedding_client, windowVars>>

\* _get_embedding evaluates self._embedding_client.embeddings.create
\* (vocabulary_db.py:88), the callee of its request.
read_client(t) ==
    /\ frame.threads[t].pc = "embed"
    /\ frame' = [frame EXCEPT !.threads[t].pc = "request",
                              !.threads[t].client = embedding_client]
    /\ UNCHANGED programVars

\* _get_embedding evaluates model=self._embedding_model and makes the
\* request (vocabulary_db.py:88-96); add_entry on the main thread upserts
\* (vocabulary_db.py:146-158), query on the worker thread returns its
\* results (vocabulary_db.py:204-223).
read_model(t) ==
    /\ frame.threads[t].pc = "request"
    /\ \E embed \in EmbeddingMeets :
          LET me == frame.threads[t]
              request == [by |-> t, client |-> me.client, model |-> embedding_model]
              vector == Embedding(embedding_model, frame.text)
          IN
          /\ collections' =
                IF t = "main" /\ embed = "vector"
                THEN [collections EXCEPT
                         ![Book].entries =
                             Upsert(@, [NewEntry(embedding_model, frame.text, <<"t">>) EXCEPT !.embedding = vector])]
                ELSE collections
          /\ \E res \in IF t = "worker" /\ embed = "vector"
                        THEN {RagList(r) : r \in QueryResults(collections[Book].entries, vector, RAG_N_RESULTS)}
                        ELSE {RagNone} :
                frame' = [frame EXCEPT !.threads[t].pc = "returned",
                                       !.threads[t].result = res,
                                       !.requests = @ \cup {request}]
    /\ UNCHANGED <<workers, emitted, trace, queue, settings, world, embedding_client, embedding_model, windowVars>>

\* The main thread enters add_text_to_vocabulary and a worker thread the
\* RAG block of its run, each with a complete provider, on a VocabularyDB
\* that an earlier call has configured or not, over a store with the book.
ShareInit ==
    /\ collections \in {s \in Stores : s[Book].exists}
    /\ \E configured \in BOOLEAN :
          /\ embedding_client = IF configured THEN [api_key |-> "k", base_url |-> "k"] ELSE NoClient
          /\ embedding_model = IF configured THEN "k" ELSE "None"
    /\ \E p \in ConfiguredProviders, q \in ConfiguredProviders, x \in StoreTexts :
          frame = [threads |-> [t \in Threads |-> ThreadAt("client", IF t = "main" THEN p ELSE q)],
                   text |-> x, requests |-> {}]
    /\ workers = <<>>
    /\ emitted = <<>>
    /\ trace = <<>>
    /\ queue = <<>>
    /\ settings = [service |-> "other", rag_vocabulary |-> NO_VOCABULARY, embedding |-> DefaultEmbedding]
    /\ world \in Worlds
    /\ window = NoWindow
    /\ translation_worker = 0
    /\ dialogs = <<>>
    /\ deferred = {}
    /\ created = 0
    /\ crashed = FALSE

ShareNext ==
    \E t \in Threads : set_client(t) \/ set_model(t) \/ read_client(t) \/ read_model(t)

ShareSpec == ShareInit /\ [][ShareNext]_vars

\* ------------------------------------------------- pipeline properties

Has(w, event) == \E i \in 1..Len(trace[w]) : trace[w][i] = event

Returned(w) == workers[w].pc = "returned"

OutcomeSignals == {"translation_successful", "translation_failed"}

EmittedFailed(w) ==
    \E i \in 1..Len(emitted[w]) : emitted[w][i].signal = "translation_failed"

EmittedSuccessful(w) ==
    \E i \in 1..Len(emitted[w]) : emitted[w][i].signal = "translation_successful"

\* C1: every run emits exactly one of translation_successful and
\* translation_failed, exactly once: a run that has not returned has emitted
\* nothing, a run that has returned has emitted one outcome signal, and the
\* main thread is posted what was emitted.
C1_ExactlyOneOutcome ==
    \A w \in DOMAIN workers :
        /\ \A i \in 1..Len(emitted[w]) :
              emitted[w][i].signal \in OutcomeSignals /\ emitted[w][i].worker = w
        /\ Len(emitted[w]) = IF Returned(w) THEN 1 ELSE 0
        /\ Returned(w) /\ ~window.exists =>
              \E i \in 1..Len(queue) : queue[i] = emitted[w][1]

\* A run through OCR, the vocabulary query and translate that succeeded.
C1_Witness ==
    \E w \in DOMAIN workers :
        /\ Returned(w)
        /\ Has(w, "recognize_text.return") /\ Has(w, "query.return")
        /\ Has(w, "translate.return")
        /\ EmittedSuccessful(w)

\* C2: while a started run has not returned, eventually every started run
\* has returned with its outcome emitted (the calls of the engine, the
\* provider and the network returning or raising, the threads scheduled);
\* and the OCR loop and the translators' request loops are in an attempt
\* below max_retries whenever they are in one.
C2_RunTerminates ==
    /\ (\E w \in DOMAIN workers : ~Returned(w)) ~>
          (\A w \in DOMAIN workers : Returned(w) /\ Len(emitted[w]) = 1)
    /\ [](\A w \in DOMAIN workers :
             /\ workers[w].pc = "ocr" => workers[w].attempt < OCR_MAX_RETRIES
             /\ workers[w].pc = "request" =>
                    workers[w].attempt < MaxRetries(workers[w].translator))

\* A run that returned after the last attempt of the OCR loop and the last
\* request of the translator's loop.
C2_Witness ==
    \E w \in DOMAIN workers :
        /\ Returned(w)
        /\ Has(w, "recognize_text.return")
        /\ workers[w].translator.class = "MicrosoftTranslator"
        /\ workers[w].attempt = MS_MAX_RETRIES - 1
        /\ workers[w].http_status = "none"
        /\ Has(w, "translate.return")

\* C3 (as stated): a run whose OCR attempts all yielded empty text ends
\* with translation_failed("OCR未能识别到任何文本") and calls neither query nor
\* translate.
C3_AllEmptyFailsNoText ==
    \A w \in DOMAIN workers :
        Returned(w) /\ workers[w].ocr_all_empty =>
            /\ emitted[w] = <<Failed(w, MSG_OCR_NO_TEXT)>>
            /\ ~Has(w, "query") /\ ~Has(w, "translate")

\* C4: with a vocabulary supplied and the embedding settings incomplete,
\* the run calls neither configure_embedding_provider nor query, leaves
\* the store's provider untouched, calls translate without rag_context
\* once it has a text, and fails only as OCR, the task or translate decide.
C4_IncompleteEmbeddingSkipsRag ==
    \A w \in DOMAIN workers :
        /\ workers[w].vocabulary_db
        /\ workers[w].rag_vocabulary_name \notin {"", NoName}
        /\ \E f \in {"api_key", "base_url", "model"} :
              settings.embedding[f] \in {"", "None"}
        =>
            /\ ~Has(w, "configure_embedding_provider") /\ ~Has(w, "query")
            /\ embedding_client = NoClient /\ embedding_model = "None"
            /\ workers[w].rag_context = RagNone
            /\ "rag_context" \notin DOMAIN workers[w].kwargs
            /\ Returned(w) =>
                  \/ Has(w, "translate.return") /\ EmittedSuccessful(w)
                  \/ Has(w, "translate.raise")
                       /\ emitted[w] = <<Failed(w, MSG_ERROR(NOT_IMPLEMENTED))>>
                  \/ ~Has(w, "translate")
                       /\ emitted[w] \in {<<Failed(w, MSG_OCR_NO_TEXT)>>,
                                          <<Failed(w, MSG_NO_TASK)>>,
                                          <<Failed(w, MSG_ERROR(OCR_ENGINE_EXCEPTION))>>}

\* A vocabulary supplied, one embedding setting empty, and the run
\* succeeded through translate.
C4_Witness ==
    \E w \in DOMAIN workers :
        /\ RagRequested(workers[w])
        /\ settings.embedding.api_key = "k" /\ settings.embedding.model = ""
        /\ Returned(w) /\ Has(w, "translate.return") /\ EmittedSuccessful(w)
        /\ workers[w].translator.class = "LLMTranslator"

RetrievalRaised(w) ==
    Has(w, "configure_embedding_provider.raise") \/ Has(w, "query.raise")

\* C5: an exception raised by configure_embedding_provider or by query is
\* caught in the run: no context is retrieved, the run goes on to translate
\* and calls it without rag_context, and it fails only if translate raises.
C5_RetrievalExceptionCaught ==
    \A w \in DOMAIN workers :
        RetrievalRaised(w) =>
            /\ workers[w].rag_context = RagNone
            /\ "rag_context" \notin DOMAIN workers[w].kwargs
            /\ workers[w].pc \in {"translate", "request", "returned"}
            /\ Returned(w) =>
                  /\ Has(w, "translate")
                  /\ EmittedFailed(w) =>
                        /\ Has(w, "translate.raise")
                        /\ emitted[w] = <<Failed(w, MSG_ERROR(NOT_IMPLEMENTED))>>

\* query raised (the collection is missing) and the run succeeded.
C5_Witness ==
    \E w \in DOMAIN workers :
        /\ Has(w, "query.raise")
        /\ ~collections[workers[w].rag_vocabulary_name].exists
        /\ Returned(w) /\ Has(w, "translate.return") /\ EmittedSuccessful(w)

\* The place of an entry of the trace in the order of the stages.
Rank(event) ==
    CASE event = "recognize_text" -> 1
      [] event \in {"recognize_text.return", "recognize_text.raise"} -> 2
      [] event = "configure_embedding_provider" -> 3
      [] event \in {"configure_embedding_provider.return",
                    "configure_embedding_provider.raise"} -> 4
      [] event = "query" -> 5
      [] event \in {"query.return", "query.raise"} -> 6
      [] event = "translate" -> 7
      [] event \in {"translate.return", "translate.raise"} -> 8
      [] OTHER -> 9

IsCall(event) ==
    event \in {"recognize_text", "configure_embedding_provider", "query", "translate"}

\* C6: in one run the stages come in the order OCR, configure, query,
\* translate, each at most once; a call has ended before the next entry;
\* translation_successful follows the return of translate, and
\* translation_failed is emitted with no call in progress.
C6_StagesOrdered ==
    \A w \in DOMAIN workers :
        LET t == trace[w] IN
        /\ \A i \in 1..Len(t) : \A j \in 1..Len(t) :
              i < j => Rank(t[i]) < Rank(t[j])
        /\ \A i \in 1..Len(t) :
              IsCall(t[i]) /\ i < Len(t) => Rank(t[i + 1]) = Rank(t[i]) + 1
        /\ \A i \in 1..Len(t) :
              t[i] = "emit" =>
                  /\ i = Len(t) /\ Returned(w)
                  /\ i > 1 => ~IsCall(t[i - 1])
                  /\ EmittedSuccessful(w) => i > 1 /\ t[i - 1] = "translate.return"
        /\ Has(w, "query") => Has(w, "configure_embedding_provider.return")
        /\ Returned(w) => Has(w, "emit")

\* A run that went through every stage.
C6_Witness ==
    \E w \in DOMAIN workers :
        trace[w] = <<"recognize_text", "recognize_text.return",
                     "configure_embedding_provider",
                     "configure_embedding_provider.return",
                     "query", "query.return",
                     "translate", "translate.return", "emit">>

\* C7: when recognize_text or translate raises, the run emits
\* translation_failed once, with "翻译时发生错误: " followed by str(e), and
\* does not emit translation_successful.
C7_StageExceptionFails ==
    \A w \in DOMAIN workers :
        /\ Has(w, "recognize_text.raise") \/ Has(w, "translate.raise") =>
              /\ workers[w].raised # None
              /\ emitted[w] =
                    <<Failed(w, <<"error during translation: ">> \o workers[w].raised)>>
        /\ Has(w, "recognize_text.raise") => workers[w].raised = OCR_ENGINE_EXCEPTION
        /\ Has(w, "translate.raise") =>
              workers[w].raised =
                  TranslateBegin(workers[w].translator, workers[w].original_text,
                                 workers[w].kwargs).text
        /\ Has(w, "translate") /\ Returned(w)
              /\ workers[w].translator.class = "TranslationService" =>
                  Has(w, "translate.raise")

\* translate raised after OCR read a text.
C7_Witness ==
    \E w \in DOMAIN workers :
        /\ Has(w, "recognize_text.return") /\ Has(w, "translate.raise")
        /\ emitted[w] = <<Failed(w, MSG_ERROR(NOT_IMPLEMENTED))>>

\* C8 (as stated): a start request made while a run is running is rejected
\* and starts nothing, so at most one run started by the main window is
\* running at any time.
C8_AtMostOneRunning == Cardinality(RunningWorkers) <= 1

\* C9: translate is called with rag_context exactly when a context was
\* retrieved and the translator's translate declares the parameter, with
\* the context retrieved; a translator that does not declare it is called
\* without it; and the call never raises a TypeError for the keyword.
C9_ContextOnlyIfDeclared ==
    \A w \in DOMAIN workers :
        Has(w, "translate") =>
            /\ "rag_context" \in DOMAIN workers[w].kwargs <=>
                  /\ ~workers[w].rag_context.is_none
                  /\ workers[w].translator.class = "LLMTranslator"
            /\ "rag_context" \in DOMAIN workers[w].kwargs =>
                  workers[w].kwargs.rag_context = workers[w].rag_context.results
            /\ workers[w].kwargs.target_lang = workers[w].target_lang
            /\ workers[w].raised # TYPE_ERROR

\* A context of one result or more was retrieved and a MicrosoftTranslator
\* was called without it and returned.
C9_Witness ==
    \E w \in DOMAIN workers :
        /\ workers[w].translator.class = "MicrosoftTranslator"
        /\ ~workers[w].rag_context.is_none
        /\ workers[w].rag_context.results # <<>>
        /\ Has(w, "translate.return")
        /\ "rag_context" \notin DOMAIN workers[w].kwargs

\* C10: a MicrosoftTranslator request answered with status 401 ends the
\* run with translation_successful(original_text, "[API密钥无效] " +
\* original_text); translation_failed is not emitted.
C10_InvalidKeySucceeds ==
    \A w \in DOMAIN workers :
        /\ workers[w].translator.class = "MicrosoftTranslator"
        /\ workers[w].http_status = "401"
        => /\ Returned(w)
           /\ emitted[w] =
                 <<Successful(w, workers[w].original_text,
                              <<"[API key invalid] ">> \o workers[w].original_text)>>
           /\ ~EmittedFailed(w)

\* The second request of a MicrosoftTranslator was answered with 401.
C10_Witness ==
    \E w \in DOMAIN workers :
        /\ workers[w].translator.class = "MicrosoftTranslator"
        /\ workers[w].http_status = "401"
        /\ workers[w].attempt = 1
        /\ Returned(w)

\* A worker constructed to translate a literal text: no screenshot with an
\* OCR engine to read it.
TextTask(w) ==
    /\ ~(workers[w].screenshot /\ workers[w].ocr_engine # "None")
    /\ workers[w].text_to_translate # None

\* C11: a run over a literal text that is not blank, with a MockTranslator
\* and without a vocabulary collection, ends with exactly
\* translation_successful(text, "[MOCK TRANSLATION] " + text), the text as
\* it was passed in; recognize_text is not called.
C11_MockTextSucceeds ==
    \A w \in DOMAIN workers :
        /\ TextTask(w)
        /\ Strip(workers[w].text_to_translate) # <<>>
        /\ workers[w].translator.class = "MockTranslator"
        /\ ~(workers[w].vocabulary_db /\ workers[w].rag_vocabulary_name \notin {"", "None"})
        => /\ ~Has(w, "recognize_text")
           /\ ~EmittedFailed(w)
           /\ Returned(w) =>
                 emitted[w] =
                    <<Successful(w, workers[w].text_to_translate,
                                 <<"[MOCK TRANSLATION] ">> \o workers[w].text_to_translate)>>

\* A run over the literal text " a" with a MockTranslator and no vocabulary
\* has returned after its translate call.
C11_Witness ==
    \E w \in DOMAIN workers :
        /\ TextTask(w)
        /\ workers[w].text_to_translate = <<" ", "a">>
        /\ workers[w].translator.class = "MockTranslator"
        /\ ~workers[w].vocabulary_db
        /\ Has(w, "translate.return")
        /\ Returned(w)
        /\ Len(emitted[w]) = 1

\* The three backends a translator is made of (translator.py:149-168).
Backends == {"MicrosoftTranslator", "LLMTranslator", "MockTranslator"}

\* A direct call of translate on a translator of class `class`.
Translating(class) == frame.fn = "translate" /\ frame.translator.class = class

\* The number of requests a direct call has made.
Requests == Len(frame.met)

\* C12: translate of a MicrosoftTranslator, an LLMTranslator or a
\* MockTranslator called with an empty or whitespace-only text returns the
\* empty string without a single request, whatever the key, base URL and
\* model of the translator are.
C12_BlankReturnsEmpty ==
    /\ frame.fn = "translate"
    /\ frame.translator.class \in Backends
    /\ frame.text \in {<<>>, <<" ">>, <<" ", " ">>, <<" ", " ", " ">>}
    => /\ Requests = 0
       /\ frame.pc \in {"call", "returned"}
       /\ frame.pc = "returned" => frame.result = <<>>

\* translate of an LLMTranslator without an api_key has returned from a
\* call with the text " ".
C12_Witness ==
    /\ Translating("LLMTranslator")
    /\ frame.translator.api_key = ""
    /\ frame.text = <<" ">>
    /\ frame.pc = "returned"

\* C13: a request of MicrosoftTranslator.translate that gets an HTTP error
\* status is the last request of the call, which returns the placeholder
\* of the status followed by the text: 401 "[API密钥无效] ", 403
\* "[API访问被拒绝] ", 429 "[API调用频率超限] ", any other status
\* "[HTTP错误 <status>] ".
C13_HttpErrorEndsCall ==
    Translating("MicrosoftTranslator") =>
        \A i \in 1..Requests :
            frame.met[i].kind = "HTTPError" =>
                /\ i = Requests
                /\ frame.pc = "returned"
                /\ frame.result =
                      CASE frame.met[i].status = "401" -> MS_KEY_INVALID(frame.text)
                        [] frame.met[i].status = "403" -> MS_ACCESS_DENIED(frame.text)
                        [] frame.met[i].status = "429" -> MS_RATE_LIMITED(frame.text)
                        [] OTHER -> <<"[HTTP error ", frame.met[i].status, "] ">> \o frame.text

\* The second request of a call got status 403 after a timeout of the first.
C13_Witness ==
    /\ Translating("MicrosoftTranslator")
    /\ Requests = 2
    /\ frame.met[1].kind = "Timeout"
    /\ frame.met[2].kind = "HTTPError"
    /\ frame.met[2].status = "403"
    /\ frame.pc = "returned"

\* A request that ended in a timeout or a connection error.
Transient(o) == o.kind \in {"Timeout", "ConnectionError"}

\* C14: one call of MicrosoftTranslator.translate makes at most 3
\* requests; after a request that timed out or lost the connection the
\* call goes on to another request exactly when fewer than 3 have been
\* made; a well-formed response of any request is returned at once, as the
\* last request of the call.
C14_AtMostThreeRequests ==
    Translating("MicrosoftTranslator") =>
        /\ Requests <= 3
        /\ \A i \in 1..Requests :
              /\ Transient(frame.met[i]) =>
                    /\ i < 3 => (i < Requests \/ frame.pc = "loop")
                    /\ i = 3 => frame.pc = "returned"
              /\ frame.met[i].shape = "ok" =>
                    /\ i = Requests
                    /\ frame.pc = "returned"
                    /\ frame.result = frame.met[i].text

\* A timeout, a connection error, then a well-formed response: the call
\* has returned the text of the third request.
C14_Witness ==
    /\ Translating("MicrosoftTranslator")
    /\ Requests = 3
    /\ frame.met[1].kind = "Timeout"
    /\ frame.met[2].kind = "ConnectionError"
    /\ frame.met[3].shape = "ok"
    /\ frame.pc = "returned"
    /\ frame.result = <<"t">>

\* C15: when each of the 3 requests of a call of
\* MicrosoftTranslator.translate timed out or lost the connection, the
\* call returns a placeholder of its own for the exhausted retries: not
\* "[连接超时] ", "[网络连接错误] " or "[翻译错误] " followed by the text,
\* which stand for the failure of one request.
C15_ExhaustedPlaceholderDistinct ==
    /\ Translating("MicrosoftTranslator")
    /\ Requests = 3
    /\ \A i \in 1..Requests : Transient(frame.met[i])
    => /\ frame.pc = "returned"
       /\ frame.result \notin {MS_TIMEOUT(frame.text), MS_CONNECTION_ERROR(frame.text), MS_TRANSLATE_ERROR(frame.text)}

\* C16: one call of LLMTranslator.translate makes at most 2 requests.  A
\* timeout of the first is followed by a second request; a timeout of the
\* second returns "[LLM连接超时]".  A request that gets an HTTP error
\* status is the last one, and the call returns "[LLM API密钥无效]" for
\* 401, "[LLM API调用频率超限]" for 429, "[LLM HTTP错误 <status>]"
\* otherwise.  A translator whose api_key, base_url or model is empty
\* returns "[LLM配置不完整]" for a text that is not blank, without a
\* request.
C16_LlmRetryPolicy ==
    Translating("LLMTranslator") =>
        /\ Requests <= 2
        /\ (Requests >= 1 /\ frame.met[1].kind = "Timeout") =>
              (Requests = 2 \/ frame.pc = "loop")
        /\ (Requests = 2 /\ frame.met[2].kind = "Timeout") =>
              (frame.pc = "returned" /\ frame.result = <<"[LLM connection timeout]">>)
        /\ \A i \in 1..Requests :
              frame.met[i].kind = "HTTPError" =>
                 /\ i = Requests
                 /\ frame.pc = "returned"
                 /\ frame.result =
                       CASE frame.met[i].status = "401" -> <<"[LLM API key invalid]">>
                         [] frame.met[i].status = "429" -> <<"[LLM API rate limit exceeded]">>
                         [] OTHER -> <<"[LLM HTTP error ", frame.met[i].status, "]">>
        /\ ( /\ "" \in {frame.translator.api_key, frame.translator.base_url, frame.translator.model}
             /\ Strip(frame.text) # <<>>
             /\ frame.pc # "call" ) =>
              /\ Requests = 0
              /\ frame.pc = "returned"
              /\ frame.result = <<"[LLM configuration incomplete]">>

\* Both requests of a call timed out and the call has returned.
C16_Witness ==
    /\ Translating("LLMTranslator")
    /\ Requests = 2
    /\ frame.met[1].kind = "Timeout"
    /\ frame.met[2].kind = "Timeout"
    /\ frame.pc = "returned"

\* A response that was received but whose body is not of the expected
\* shape or cannot be decoded.
Malformed(o) == (o.kind = "response" /\ o.shape # "ok") \/ o.kind = "JSONDecodeError"

\* C17: a request of MicrosoftTranslator.translate or of
\* LLMTranslator.translate that received a malformed response (key missing,
\* list empty, element of the wrong type, content empty, body undecodable)
\* is the last request of the call, which returns a format-error
\* placeholder: "[响应格式错误] " or "[响应解析错误] " and the text,
\* "[LLM响应格式错误]".
C17_MalformedNotRetried ==
    (Translating("MicrosoftTranslator") \/ Translating("LLMTranslator")) =>
        \A i \in 1..Requests :
            Malformed(frame.met[i]) =>
                /\ i = Requests
                /\ frame.pc = "returned"
                /\ frame.result \in
                      IF frame.translator.class = "LLMTranslator"
                      THEN {LLM_FORMAT_ERROR}
                      ELSE {MS_FORMAT_ERROR(frame.text), MS_PARSE_ERROR(frame.text)}

\* C18: a call of translate of a MicrosoftTranslator, an LLMTranslator or a
\* MockTranslator never ends in an exception, whatever the text is and
\* whatever each of its requests meets: after every request the call is
\* either in its loop or has returned, and what it returns is a string.
C18_TranslateNeverRaises ==
    (frame.fn = "translate" /\ frame.translator.class \in Backends) =>
        /\ frame.pc \in {"call", "loop", "returned"}
        /\ frame.pc = "returned" =>
              \A j \in 1..Len(frame.result) : frame.result[j] \in STRING

\* Each of the 3 requests of a MicrosoftTranslator ended in an exception
\* that is neither a timeout nor a connection, HTTP or decoding error, and
\* the call has returned "[翻译错误] " and the text.
C18_Witness ==
    /\ Translating("MicrosoftTranslator")
    /\ Requests = 3
    /\ \A i \in 1..3 : frame.met[i].kind = "Exception"
    /\ frame.pc = "returned"
    /\ frame.result = <<"[translation error] ">> \o frame.text

\* The number of attempts a direct call of recognize_text has made.
Attempts == Len(frame.met)

\* An attempt whose engine call gave a text that is empty when trimmed.
EmptyText(o) == o.kind = "text" /\ Strip(o.text) = <<>>

\* C19: recognize_text makes attempt 1 with the default settings, attempt 2
\* with "--psm 6", attempt 3 with "--psm 8" on the image converted to
\* grayscale; the first attempt whose text is not empty when trimmed is the
\* last attempt of the call, which returns that text trimmed.
C19_OcrLadder ==
    frame.fn = "recognize_text" =>
        /\ Len(frame.configs) = Attempts
        /\ \A i \in 1..Attempts :
              /\ i = 1 => frame.configs[i] = [psm |-> "default", grayscale |-> FALSE]
              /\ i = 2 => frame.configs[i] = [psm |-> "--psm 6", grayscale |-> FALSE]
              /\ i = 3 => frame.configs[i] = [psm |-> "--psm 8", grayscale |-> TRUE]
              /\ (frame.met[i].kind = "text" /\ ~EmptyText(frame.met[i])) =>
                    /\ i = Attempts
                    /\ frame.pc = "returned"
                    /\ frame.result = Strip(frame.met[i].text)

\* Empty, whitespace, then "a " : the call has returned "a" after exactly
\* 3 engine calls.
C19_Witness ==
    /\ frame.fn = "recognize_text"
    /\ Attempts = 3
    /\ frame.met[1] = [kind |-> "text", text |-> <<>>]
    /\ frame.met[2] = [kind |-> "text", text |-> <<" ">>]
    /\ frame.met[3] = [kind |-> "text", text |-> <<"a", " ">>]
    /\ frame.pc = "returned"
    /\ frame.result = <<"a">>

\* C20: while every attempt of recognize_text has given a text that is
\* empty when trimmed, the call goes on until max_retries attempts are
\* made, then returns "[OCR] 未识别到文本内容" without raising: exactly
\* max_retries engine calls.
C20_AllEmptyReturnsSentinel ==
    ( /\ frame.fn = "recognize_text"
      /\ \A i \in 1..Attempts : EmptyText(frame.met[i]) ) =>
        /\ Attempts <= frame.max_retries
        /\ Attempts < frame.max_retries => frame.pc = "loop"
        /\ Attempts = frame.max_retries =>
              /\ frame.pc = "returned"
              /\ frame.result = OCR_NO_TEXT_FOUND

\* A call with max_retries = 3 has returned after three attempts that gave
\* "", " " and "".
C20_Witness ==
    /\ frame.fn = "recognize_text"
    /\ frame.max_retries = 3
    /\ Attempts = 3
    /\ frame.met[1].text = <<>>
    /\ frame.met[2].text = <<" ">>
    /\ frame.met[3].text = <<>>
    /\ \A i \in 1..3 : frame.met[i].kind = "text"
    /\ frame.pc = "returned"

\* C21: an attempt of recognize_text that raises TesseractNotFoundError,
\* PermissionError or FileNotFoundError is the last attempt of the call,
\* which returns the message of that condition.
C21_FatalErrorsEndCall ==
    frame.fn = "recognize_text" =>
        \A i \in 1..Attempts :
            frame.met[i].kind \in {"TesseractNotFoundError", "PermissionError", "FileNotFoundError"} =>
                /\ i = Attempts
                /\ frame.pc = "returned"
                /\ frame.result =
                      CASE frame.met[i].kind = "TesseractNotFoundError" -> OCR_NOT_INSTALLED
                        [] frame.met[i].kind = "PermissionError" -> OCR_NO_PERMISSION
                        [] OTHER -> OCR_EXE_NOT_FOUND

\* C22: an attempt of recognize_text that raises TesseractError or an
\* exception without a handler of its own is followed by the next attempt
\* while fewer than max_retries are made; raised by attempt max_retries it
\* makes the call return an "[OCR错误] " message that carries the
\* exception, without raising.  No call makes more than max_retries
\* attempts.
C22_OtherExceptionsRetried ==
    frame.fn = "recognize_text" =>
        /\ Attempts <= frame.max_retries
        /\ frame.pc \in {"loop", "returned"}
        /\ \A i \in 1..Attempts :
              frame.met[i].kind \in {"TesseractError", "Exception"} =>
                 /\ i < frame.max_retries => (i < Attempts \/ frame.pc = "loop")
                 /\ i = frame.max_retries =>
                       /\ frame.pc = "returned"
                       /\ frame.result =
                             IF frame.met[i].kind = "TesseractError"
                             THEN <<"[OCR error] Tesseract execution failed: ", "TesseractError">>
                             ELSE <<"[OCR error] ", "Exception">>

\* An exception, a TesseractError and an exception again: the call with
\* max_retries = 3 has returned after the third.
C22_Witness ==
    /\ frame.fn = "recognize_text"
    /\ frame.max_retries = 3
    /\ Attempts = 3
    /\ frame.met[1].kind = "Exception"
    /\ frame.met[2].kind = "TesseractError"
    /\ frame.met[3].kind = "Exception"
    /\ frame.pc = "returned"

\* C23: when recognize_text returns, on whatever path, none of the debug
\* images the call saved is left on disk.
C23_NoDebugFileLeft ==
    (frame.fn = "recognize_text" /\ frame.pc = "returned") => frame.debug_files = {}

\* A call of the VocabularyDB method fn has ended by returning.
ReturnedFrom(fn) == frame.fn = fn /\ frame.pc = "returned"

\* The entries the collection held when the call in the frame was made.
EntriesBefore(name) == frame.before[name].entries

\* C24: after rename_collection(old, new) has returned, whatever old (an
\* empty collection too) and new are, the collection new holds exactly the
\* entries old held before the call, with their ids, texts, translations
\* and vectors, and old is no longer listed.
C24_RenameMovesEntries ==
    ReturnedFrom("rename_collection") =>
        /\ Exists(frame.new_name)
        /\ collections[frame.new_name].entries = EntriesBefore(frame.collection_name)
        /\ ~Exists(frame.collection_name)

\* C25: when the process dies between two client calls of
\* rename_collection, both collections exist afterwards, the old one with
\* exactly the entries it had and the new one with every one of them; and
\* at no point of a rename is an entry the old collection had in neither
\* collection.
C25_CrashLeavesBoth ==
    frame.fn = "rename_collection" =>
        /\ frame.pc = "crashed" =>
              /\ Exists(frame.collection_name)
              /\ Exists(frame.new_name)
              /\ collections[frame.collection_name].entries = EntriesBefore(frame.collection_name)
              /\ EntriesBefore(frame.collection_name) \subseteq collections[frame.new_name].entries
        /\ \A e \in EntriesBefore(frame.collection_name) :
              \/ e \in collections[frame.collection_name].entries
              \/ e \in collections[frame.new_name].entries

\* C26: create_collection(name) never raises and leaves a collection
\* named name; called on a name that exists already (a second call) it
\* leaves that collection with the entries it had, and it never touches
\* another collection.
C26_CreateIdempotent ==
    frame.fn = "create_collection" =>
        /\ frame.pc = "returned"
        /\ Exists(frame.collection_name)
        /\ frame.before[frame.collection_name].exists =>
              collections[frame.collection_name] = frame.before[frame.collection_name]
        /\ \A n \in CollectionNames \ {frame.collection_name} : collections[n] = frame.before[n]

\* create_collection has returned from a call on a collection that
\* existed with entries.
C26_Witness ==
    /\ ReturnedFrom("create_collection")
    /\ frame.before[frame.collection_name].exists
    /\ EntriesBefore(frame.collection_name) # {}
    /\ frame.calls = 2

\* The entries of a set that have the id.
WithId(entries, id) == {x \in entries : x.id = id}

\* The call in the frame embedded its text and wrote.
Wrote(fn) == ReturnedFrom(fn) /\ frame.embedded = "vector"

\* C27: after add_entry(collection, original, translation) has written,
\* the collection holds exactly one entry under the id that is the
\* original text lower-cased with "_" for each space ("a" for "a" and for
\* "A", "a_" for "a "), and that entry carries the text, the translation
\* and the vector of this call, whatever entry was under the id before;
\* the entries under other ids are as they were.
C27_AddEntryUpserts ==
    Wrote("add_entry") =>
        LET id == CASE frame.original_text = <<"a", " ">> -> <<"a", "_">>
                    [] OTHER -> <<"a">>
            now == collections[frame.collection_name].entries
        IN  /\ WithId(now, id) =
                  {[id |-> id, original_text |-> frame.original_text,
                    translation |-> frame.translation,
                    embedding |-> Embedding(embedding_model, frame.original_text)]}
            /\ now \ WithId(now, id) =
                  EntriesBefore(frame.collection_name) \ WithId(EntriesBefore(frame.collection_name), id)

\* add_entry of "A" with translation "u" has written over the entry "a"
\* with translation "t", next to an entry of another id.
C27_Witness ==
    /\ Wrote("add_entry")
    /\ frame.original_text = <<"A">>
    /\ frame.translation = <<"u">>
    /\ \E x \in EntriesBefore(frame.collection_name) :
          x.id = <<"a">> /\ x.original_text = <<"a">> /\ x.translation = <<"t">>
    /\ Cardinality(collections[frame.collection_name].entries) = 2

\* C28: when the embedding request of add_entry or of update_entry
\* fails, the call writes nothing: every collection holds the entries,
\* with their vectors and metadata, it held when the call was made.
C28_FailedEmbeddingWritesNothing ==
    (frame.fn \in {"add_entry", "update_entry"} /\ frame.embedded = "error") =>
        collections = frame.before

\* update_entry on an entry of a collection of two has returned after its
\* embedding request failed.
C28_Witness ==
    /\ ReturnedFrom("update_entry")
    /\ frame.embedded = "error"
    /\ WithId(EntriesBefore(frame.collection_name), frame.entry_id) # {}
    /\ Cardinality(EntriesBefore(frame.collection_name)) = 2

\* C29: an update_entry whose embedding request failed does not end like
\* a successful update, which returns None: it ends in a way the caller
\* can tell from success, by raising.
C29_FailedUpdateSurfaced ==
    (frame.fn = "update_entry" /\ frame.embedded = "error") => frame.pc = "raised"

\* C30: after update_entry(collection, entry_id, new_original,
\* new_translation) has written over an existing entry, the collection
\* holds under entry_id exactly one entry, with new_original,
\* new_translation and the vector of new_original; the id is entry_id
\* whatever id new_original would derive; every other entry of the
\* collection, and every other collection, is as it was.
C30_UpdateKeepsId ==
    (Wrote("update_entry") /\ WithId(EntriesBefore(frame.collection_name), frame.entry_id) # {}) =>
        LET now == collections[frame.collection_name].entries IN
        /\ WithId(now, frame.entry_id) =
              {[id |-> frame.entry_id, original_text |-> frame.original_text,
                translation |-> frame.translation,
                embedding |-> Embedding(embedding_model, frame.original_text)]}
        /\ now \ WithId(now, frame.entry_id) =
              EntriesBefore(frame.collection_name) \ WithId(EntriesBefore(frame.collection_name), frame.entry_id)
        /\ \A n \in CollectionNames \ {frame.collection_name} : collections[n] = frame.before[n]

\* update_entry has written the text "a " and the translation "u" over the
\* entry "a", whose id stays "a", in a collection that also holds "a_".
C30_Witness ==
    /\ Wrote("update_entry")
    /\ frame.entry_id = <<"a">>
    /\ frame.original_text = <<"a", " ">>
    /\ frame.translation = <<"u">>
    /\ WithId(EntriesBefore(frame.collection_name), <<"a">>) # {}
    /\ WithId(EntriesBefore(frame.collection_name), <<"a", "_">>) # {}


\* C31: in every state the direct calls add_entry, update_entry,
\* delete_entry and rename_collection reach, also between the client calls
\* of a rename, the vector stored with each entry of each collection is the
\* embedding, under the model that produced it, of the original text the
\* entry now holds.
C31_VectorOfCurrentText ==
    \A n \in CollectionNames : \A e \in collections[n].entries :
        e.embedding = Embedding(e.embedding.space, e.original_text)

\* update_entry has written a new original text, whose vector differs,
\* over an existing entry.
C31_Witness ==
    /\ Wrote("update_entry")
    /\ \E x \in EntriesBefore(frame.collection_name) :
          /\ x.id = frame.entry_id
          /\ x.embedding # Embedding(embedding_model, frame.original_text)
    /\ \E e \in collections[frame.collection_name].entries :
          e.id = frame.entry_id /\ e.original_text = frame.original_text


\* C32: on a VocabularyDB whose provider was never configured, add_entry,
\* update_entry and query end by raising, before any embedding request and
\* with every collection as it was; when the collection exists, what they
\* raise is the not-configured error of _get_embedding.  A
\* configure_embedding_provider call with an empty api_key, base_url or
\* model raises its ValueError and leaves the client and the model as they
\* were before the call.
C32_UnconfiguredFailsFast ==
    /\ (frame.fn \in {"add_entry", "update_entry", "query"} /\ frame.provider_before = <<NoClient, "None">>) =>
          /\ frame.pc = "raised"
          /\ frame.embedded = "none"
          /\ collections = frame.before
          /\ frame.before[frame.collection_name].exists => frame.error = NOT_CONFIGURED
    /\ (frame.fn = "configure_embedding_provider"
           /\ (frame.provider.api_key = "" \/ frame.provider.base_url = "" \/ frame.provider.model = "")) =>
          /\ frame.pc = "raised"
          /\ frame.error = MUST_BE_PROVIDED
          /\ <<embedding_client, embedding_model>> = frame.provider_before

\* add_entry, the second call made, has raised the not-configured error on
\* a book of two entries.
C32_Witness ==
    /\ frame.fn = "add_entry" /\ frame.pc = "raised"
    /\ frame.error = NOT_CONFIGURED
    /\ frame.provider_before = <<NoClient, "None">>
    /\ frame.calls = 2
    /\ Cardinality(collections[frame.collection_name].entries) = 2


\* C33: a direct query call whose embedding request fails returns, without
\* raising, the absent result (None); a query that returns the absent
\* result is one whose embedding request failed; a query that embedded its
\* text on a collection without entries returns the empty list; and a
\* query raises only before it embeds (missing collection, provider not
\* configured).
C33_QueryResultKinds ==
    frame.fn = "query" =>
        /\ frame.embedded = "error" => frame.pc = "returned" /\ frame.result = RagNone
        /\ (frame.pc = "returned" /\ frame.result.is_none) => frame.embedded = "error"
        /\ (frame.embedded = "vector" /\ EntriesBefore(frame.collection_name) = {}) =>
              frame.pc = "returned" /\ frame.result = RagList(<<>>)
        /\ frame.pc = "raised" =>
              frame.embedded = "none" /\ frame.error \in {COLLECTION_NOT_FOUND, NOT_CONFIGURED}

\* query on a book of two entries has returned the absent result after
\* its embedding request failed.
C33_Witness ==
    /\ ReturnedFrom("query")
    /\ frame.embedded = "error"
    /\ frame.result = RagNone
    /\ Cardinality(EntriesBefore(frame.collection_name)) = 2


\* C34: in every state the direct calls configure_embedding_provider,
\* add_entry, update_entry and rename_collection reach, the vectors of the
\* entries of one collection were all produced by the same embedding
\* model.
C34_OneModelPerCollection ==
    \A n \in CollectionNames :
        \A e1 \in collections[n].entries : \A e2 \in collections[n].entries :
            e1.embedding.space = e2.embedding.space


\* C35: every worker on_translation_finished has scheduled for deletion
\* (and dropped the main window's reference to) is a worker whose thread
\* has finished: no worker scheduled for deletion is still running.  A
\* thread is started once, so a worker found running was running when the
\* handler scheduled it.
C35_OnlyFinishedDiscarded ==
    \A d \in deferred : ~IsRunning(d.worker)


\* C36: every embedding request the two threads make goes to a client
\* with a model name that one configure_embedding_provider call set
\* together, and the request of add_entry on the main thread goes to the
\* client and the model the main thread has just configured.
C36_RequestsUseOneConfiguration ==
    \A r \in frame.requests :
        /\ \E t \in Threads :
              r.client = ClientOf(frame.threads[t].provider) /\ r.model = frame.threads[t].provider.model
        /\ r.by = "main" =>
              r.client = ClientOf(frame.threads["main"].provider) /\ r.model = frame.threads["main"].provider.model


\* C37: after rename_collection(old, new) has returned, whatever the two
\* names are (new equal to old, new an existing collection with entries),
\* every entry old held before the call is an entry of new, and so is
\* every entry new held before the call.
C37_RenameLosesNoEntry ==
    ReturnedFrom("rename_collection") =>
        /\ collections[frame.new_name].exists
        /\ EntriesBefore(frame.collection_name) \subseteq collections[frame.new_name].entries
        /\ EntriesBefore(frame.new_name) \subseteq collections[frame.new_name].entries


\* The messages recognize_text returns when it ends in an OCR error
\* (ocr.py:106-148).
OcrErrorMessages ==
    {OCR_NOT_INSTALLED, OCR_EXEC_FAILED, OCR_NO_PERMISSION, OCR_EXE_NOT_FOUND,
     OCR_UNKNOWN_ERROR, OCR_ALL_RETRIES_FAILED}

\* C38: a run whose recognize_text has returned one of its OCR error
\* messages never calls translate, and when it has returned it has emitted
\* translation_failed and not translation_successful.
C38_OcrErrorNotTranslated ==
    \A w \in DOMAIN workers :
        (Has(w, "recognize_text.return") /\ workers[w].original_text \in OcrErrorMessages) =>
            /\ ~Has(w, "translate")
            /\ Returned(w) => EmittedFailed(w) /\ ~EmittedSuccessful(w)


\* C39: as long as no update_entry has been called (add_entry and
\* delete_entry calls, and the calls that write no entry of their own), the
\* id of every stored entry is its original text lower-cased with "_" for
\* each space, and no collection holds two entries whose original texts
\* normalise to the same id.
C39_IdIsNormalisedText ==
    ~frame.updated =>
        \A n \in CollectionNames :
            /\ \A e \in collections[n].entries : e.id = DocId(e.original_text)
            /\ \A e1 \in collections[n].entries : \A e2 \in collections[n].entries :
                  DocId(e1.original_text) = DocId(e2.original_text) => e1 = e2

\* With no update_entry called, add_entry of "A" has written into a
\* collection that held "a": one entry, under "a", holds "A".
C39_Witness ==
    /\ ~frame.updated
    /\ Wrote("add_entry")
    /\ frame.original_text = <<"A">>
    /\ \E x \in EntriesBefore(frame.collection_name) : x.original_text = <<"a">>
    /\ \A e \in collections[frame.collection_name].entries :
          e.id = <<"a">> => e.original_text = <<"A">>


\* C40: update_entry adds no entry: when an update_entry call has ended,
\* whatever its entry_id (one the collection does not hold too), every
\* collection holds entries under exactly the ids it held when the call
\* was made.
C40_UpdateAddsNoEntry ==
    (frame.fn = "update_entry" /\ frame.pc \in {"returned", "raised"}) =>
        \A n \in CollectionNames :
            {e.id : e \in collections[n].entries} = {e.id : e \in EntriesBefore(n)}

====
